---- MODULE Spec2Model ----
(***************************************************************************)
(* Quick Expenses: the local store (transactions, settings, custom         *)
(* categories), the category bookkeeping, the analytics aggregation, the   *)
(* date-range utilities and the one-time schema initialization.            *)
(*                                                                         *)
(* Strings whose characters matter (category names, ISO dates) are         *)
(* sequences of one-character strings, so that trimming, whitespace        *)
(* collapsing, lower-casing, zero padding and lexicographic comparison are *)
(* computed and not assumed.                                               *)
(***************************************************************************)
EXTENDS Integers, Sequences, FiniteSets, TLC

VARIABLES
    \* ---- the SQLite database file
    tables,                 \* names of the tables that exist
    txColumns,              \* columns of the transactions table
    custom_categories,      \* rows of custom_categories, in insertion order
    settings,               \* rows of settings (key, value), in insertion order
    transactions,           \* rows of transactions, in insertion order
    \* ---- src/db/schema.ts and src/db/db.ts module state
    dbPromise, initPromise, initPc, callerPc, createRuns, migrateRuns,
    \* ---- the tables the database file held when the process started (history)
    tablesAtStart,
    \* ---- add-expense screen: custom category calls in flight
    addPc, addName, addResult, isAddingCustomCategory, renderedIsAdding,
    \* ---- the non-empty names passed to recordRecentCategory so far (history)
    recorded,
    \* ---- last analytics query and its results
    query, queryResult,
    \* ---- date-range utilities: inputs and last result
    dateA, dateB, rangeOp, rangeResult,
    \* ---- analytics screen: request counter, requests started, React state
    requestIdRef, loads, analytics,
    \* ---- the last call of the settings / categories API and what it returned
    lastCall,
    \* ---- budget screen: the clock, React state and the load in progress,
    \* ---- setMonthlyBudgetSetting calls in flight, unhandled promise rejections
    today, budgetScreen, budgetWrites, unhandledRejections,
    \* ---- CurrencyProvider: React state and the mount effect's position,
    \* ---- setCurrencySetting calls in flight
    provider, currencyWrites,
    \* ---- home screen: React state, loadHomeData calls in flight
    home, homeLoads,
    \* ---- add-expense screen: the save in progress and its outcome
    saveScreen,
    \* ---- analytics screen: the range picker
    picker

dbVars    == <<tables, txColumns, custom_categories, settings, transactions>>
initVars  == <<dbPromise, initPromise, initPc, callerPc, createRuns, migrateRuns,
               tablesAtStart>>
addVars   == <<addPc, addName, addResult, isAddingCustomCategory, renderedIsAdding>>
queryVars == <<query, queryResult>>
dateVars  == <<dateA, dateB, rangeOp, rangeResult>>
loadVars  == <<requestIdRef, loads, analytics>>
budgetVars == <<today, budgetScreen, budgetWrites, unhandledRejections>>
providerVars == <<provider, currencyWrites>>
screenVars == <<home, homeLoads, saveScreen, picker>>
uiVars    == <<loadVars, lastCall, budgetVars, providerVars, screenVars>>
vars      == <<dbVars, initVars, addVars, recorded, queryVars, dateVars, uiVars>>

----------------------------------------------------------------------------
(* Bounds of the model *)

NumCallers == 2      \* concurrent callers (init callers, add-category calls)
MaxCustom == 2       \* rows of custom_categories
MaxRecorded == 7     \* recordRecentCategory calls with a non-empty name
MaxLoads == 4        \* loadAnalytics requests started
MaxEdits == 2        \* edits of the budget field
MaxSelections == 2   \* setCurrencyCode calls
MaxMonthTicks == 2   \* month changes of the clock
MaxTx == 3           \* rows of transactions

----------------------------------------------------------------------------
(* Characters and strings *)

\* the lower-case form of each upper-case letter
LowerOf ==
    "A" :> "a" @@ "B" :> "b" @@ "C" :> "c" @@ "D" :> "d" @@ "E" :> "e" @@ "F" :> "f" @@
    "G" :> "g" @@ "H" :> "h" @@ "I" :> "i" @@ "J" :> "j" @@ "K" :> "k" @@ "L" :> "l" @@
    "M" :> "m" @@ "N" :> "n" @@ "O" :> "o" @@ "P" :> "p" @@ "Q" :> "q" @@ "R" :> "r" @@
    "S" :> "s" @@ "T" :> "t" @@ "U" :> "u" @@ "V" :> "v" @@ "W" :> "w" @@ "X" :> "x" @@
    "Y" :> "y" @@ "Z" :> "z"

\* the characters JavaScript's \s and trim() treat as whitespace (those used)
WhitespaceChars == {" ", "\t"}

ToLowerChar(c) == IF c \in DOMAIN LowerOf THEN LowerOf[c] ELSE c

\* String.prototype.toLowerCase
toLowerCase(s) == [i \in 1..Len(s) |-> ToLowerChar(s[i])]

RECURSIVE TrimStart(_)
TrimStart(s) ==
    IF s # <<>> /\ Head(s) \in WhitespaceChars THEN TrimStart(Tail(s)) ELSE s

RECURSIVE TrimEnd(_)
TrimEnd(s) ==
    IF s # <<>> /\ s[Len(s)] \in WhitespaceChars
    THEN TrimEnd(SubSeq(s, 1, Len(s) - 1))
    ELSE s

\* String.prototype.trim
trim(s) == TrimEnd(TrimStart(s))

\* s.replace(/\s+/g, ' '): every maximal run of whitespace becomes one space
RECURSIVE CollapseWhitespace(_)
CollapseWhitespace(s) ==
    IF s = <<>> THEN <<>>
    ELSE IF Head(s) \in WhitespaceChars
         THEN <<" ">> \o CollapseWhitespace(TrimStart(Tail(s)))
         ELSE <<Head(s)>> \o CollapseWhitespace(Tail(s))

\* a buggy variant that trims but keeps inner whitespace as typed
normalizeCategoryName_NoCollapse(name) == trim(name)

normalizeCategoryName(name) == CollapseWhitespace(trim(name))

DEFAULT_CATEGORIES ==
    << <<"G", "r", "o", "c", "e", "r", "i", "e", "s">>,
       <<"T", "r", "a", "n", "s", "p", "o", "r", "t">>,
       <<"C", "a", "f", "e">>,
       <<"R", "e", "s", "t", "a", "u", "r", "a", "n", "t", "s">>,
       <<"H", "o", "m", "e">>,
       <<"H", "e", "a", "l", "t", "h">>,
       <<"P", "h", "a", "r", "m", "a", "c", "y">>,
       <<"E", "n", "t", "e", "r", "t", "a", "i", "n", "m", "e", "n", "t">>,
       <<"S", "u", "b", "s", "c", "r", "i", "p", "t", "i", "o", "n", "s">>,
       <<"C", "l", "o", "t", "h", "i", "n", "g">>,
       <<"G", "i", "f", "t", "s">>,
       <<"E", "d", "u", "c", "a", "t", "i", "o", "n">>,
       <<"T", "r", "a", "v", "e", "l">>,
       <<"S", "p", "o", "r", "t", "s">>,
       <<"B", "e", "a", "u", "t", "y">>,
       <<"K", "i", "d", "s">>,
       <<"T", "a", "x", "i">>,
       <<"M", "o", "b", "i", "l", "e">>,
       <<"O", "t", "h", "e", "r">> >>

SeqToSet(s) == {s[i] : i \in 1..Len(s)}

RECURSIVE Reverse(_)
Reverse(s) == IF s = <<>> THEN <<>> ELSE Reverse(Tail(s)) \o <<Head(s)>>

RECURSIVE SelectNot(_, _)
\* values.filter((value) => value.toLowerCase() !== key)
SelectNot(values, key) ==
    IF values = <<>> THEN <<>>
    ELSE IF toLowerCase(Head(values)) # key
         THEN <<Head(values)>> \o SelectNot(Tail(values), key)
         ELSE SelectNot(Tail(values), key)

----------------------------------------------------------------------------
(* The database file, and its one-time initialization                      *)
(* (src/db/db.ts, src/db/schema.ts)                                        *)

TxBaseColumns == {"id", "amount", "category", "item", "note", "date", "createdAt"}

\* The database file found on the device when the process starts: none yet
\* (fresh install), one written before the attachmentUri column existed (the
\* case ensureAttachmentUriColumn migrates), or one holding the whole
\* persisted schema, custom_categories included.
FreshDisk == [tables |-> {}, txColumns |-> {}]

DiskStates ==
    { FreshDisk,
      [tables |-> {"transactions", "settings"}, txColumns |-> TxBaseColumns],
      [tables |-> {"transactions", "settings", "custom_categories"},
       txColumns |-> TxBaseColumns \cup {"attachmentUri"}] }

\* the CREATE TABLE IF NOT EXISTS statements of initDatabaseAsync
CreateTables(ts) == ts \cup {"transactions", "settings"}

CreateColumns(ts, cols) ==
    IF "transactions" \in ts THEN cols ELSE TxBaseColumns \cup {"attachmentUri"}

\* ensureAttachmentUriColumn: ALTER TABLE only when the column is absent
hasAttachmentColumn(cols) == "attachmentUri" \in cols

\* what a database is after a completed initDatabaseAsync
InitializedDisk(d) ==
    [tables |-> CreateTables(d.tables),
     txColumns |-> CreateColumns(d.tables, d.txColumns) \cup {"attachmentUri"}]

Callers == 1..NumCallers
NoPromise == 0

\* a buggy variant: every call starts a new initialization
NeedsInit_Always(p) == TRUE

\* if (!initPromise)
\* a buggy variant that starts over after a failed initialization
NeedsInit_AfterFailure(p) == p = NoPromise \/ initPc[p] = "failed"

NeedsInit(p) == p = NoPromise

\* the settled state of the promise an init task returns
PromiseState(task) ==
    IF task = NoPromise THEN "none"
    ELSE IF initPc[task] = "done" THEN "resolved"
    ELSE IF initPc[task] = "failed" THEN "rejected"
    ELSE "pending"

EmptyStore ==
    /\ custom_categories = <<>>
    /\ settings = <<>>
    /\ transactions = <<>>

IdleScreens ==
    /\ addPc = [c \in Callers |-> "idle"]
    /\ addName = [c \in Callers |-> <<>>]
    /\ addResult = [c \in Callers |-> [kind |-> "none"]]
    /\ isAddingCustomCategory = FALSE
    /\ renderedIsAdding = FALSE
    /\ recorded = <<>>
    /\ query = [op |-> "none"]
    /\ queryResult = [op |-> "none"]
    /\ requestIdRef = 0
    /\ loads = [r \in 1..MaxLoads |-> [pc |-> "idle"]]
    /\ analytics = [categoryTotals |-> <<>>, total |-> 0, isLoading |-> FALSE, error |-> ""]
    /\ lastCall = [op |-> "none"]
    /\ today = [y |-> 2024, m |-> 10, d |-> 30, h |-> 22]
    /\ budgetScreen = [pc |-> "idle", currentMonthKey |-> <<>>, savedBudgetMonth |-> [kind |-> "none"],
                       monthKey |-> <<>>, rawBudget |-> <<>>, monthlyBudget |-> [kind |-> "null"],
                       spentThisMonth |-> 0, topSpendingDays |-> <<>>,
                       now |-> [y |-> 0, m |-> 0, d |-> 0, h |-> 0],
                       error |-> "", isLoading |-> FALSE, edits |-> 0]
    /\ budgetWrites = <<>>
    /\ unhandledRejections = 0
    /\ provider = [currencyCode |-> <<"E", "U", "R">>, mountPc |-> "getCurrency",
                   parsedLegacy |-> <<>>, selections |-> 0]
    /\ currencyWrites = <<>>
    /\ home = [selectedDate |-> [y |-> 2024, m |-> 2, d |-> 31, h |-> 9],
               todayTransactions |-> <<>>, totalToday |-> 0, loadError |-> "",
               started |-> 0]
    /\ homeLoads = <<>>
    /\ saveScreen = [pc |-> "idle", pending |-> [kind |-> "none"], amountError |-> "",
                     saveError |-> "", isSaving |-> FALSE, attempts |-> 0, rowsAtStart |-> 0]
    /\ picker = [periodType |-> "month",
                 selectedDate |-> [y |-> 2024, m |-> 2, d |-> 10, h |-> 12],
                 selectedWeekStart |-> [y |-> 2024, m |-> 2, d |-> 4, h |-> 0],
                 selectedMonth |-> [y |-> 2024, m |-> 2, d |-> 1, h |-> 0],
                 rangeStart |-> [kind |-> "none"], rangeEnd |-> [kind |-> "none"],
                 isPickerVisible |-> FALSE]

NoDates ==
    /\ dateA = [y |-> 0, m |-> 0, d |-> 0, h |-> 0]
    /\ dateB = [y |-> 0, m |-> 0, d |-> 0, h |-> 0]
    /\ rangeOp = "none"
    /\ rangeResult = [fromISO |-> <<>>, toISO |-> <<>>]

\* process start: nothing opened, nothing initialized
InitSchema ==
    /\ \E d \in DiskStates : tables = d.tables /\ txColumns = d.txColumns
    /\ tablesAtStart = tables
    /\ dbPromise = "null"
    /\ initPromise = NoPromise
    /\ initPc = [c \in Callers |-> "none"]
    /\ callerPc = [c \in Callers |-> [at |-> "idle", awaits |-> NoPromise]]
    /\ createRuns = 0
    /\ migrateRuns = 0
    /\ EmptyStore /\ IdleScreens /\ NoDates

\* getDbAsync: if (!dbPromise) dbPromise = openDatabaseAsync(...)
getDbAsync(p) == IF p = "null" THEN "pending" ELSE p

\* A caller (any storage operation) calls initDatabaseAsync.  The async
\* function body runs synchronously up to its first await, so the test of
\* initPromise, the assignment, and the task's call of getDbAsync are one step.
CallInit(c) ==
    /\ callerPc[c].at # "awaiting"
    /\ IF NeedsInit(initPromise)
       THEN /\ initPromise' = c
            /\ initPc' = [initPc EXCEPT ![c] = "awaitDb"]
            /\ dbPromise' = getDbAsync(dbPromise)
       ELSE UNCHANGED <<initPromise, initPc, dbPromise>>
    /\ callerPc' = [callerPc EXCEPT ![c] = [at |-> "awaiting", awaits |-> initPromise']]
    /\ UNCHANGED <<uiVars, tablesAtStart, dbVars, createRuns, migrateRuns, addVars, recorded, queryVars, dateVars>>

\* SQLite.openDatabaseAsync settles
OpenSettles ==
    /\ dbPromise = "pending"
    /\ \E ok \in BOOLEAN : dbPromise' = IF ok THEN "resolved" ELSE "rejected"
    /\ UNCHANGED <<uiVars, tablesAtStart, dbVars, initPromise, initPc, callerPc, createRuns, migrateRuns,
                   addVars, recorded, queryVars, dateVars>>

\* the init task resumes from `await getDbAsync()` and runs the CREATE TABLEs
InitCreate(t) ==
    /\ initPc[t] = "awaitDb"
    /\ dbPromise \in {"resolved", "rejected"}
    /\ IF dbPromise = "rejected"
       THEN /\ initPc' = [initPc EXCEPT ![t] = "failed"]
            /\ UNCHANGED <<tables, txColumns, createRuns>>
       ELSE \E ok \in BOOLEAN :
              IF ok
              THEN /\ tables' = CreateTables(tables)
                   /\ txColumns' = CreateColumns(tables, txColumns)
                   /\ createRuns' = createRuns + 1
                   /\ initPc' = [initPc EXCEPT ![t] = "tableInfo"]
              ELSE /\ initPc' = [initPc EXCEPT ![t] = "failed"]
                   /\ UNCHANGED <<tables, txColumns, createRuns>>
    /\ UNCHANGED <<uiVars, tablesAtStart, custom_categories, settings, transactions, dbPromise, initPromise,
                   callerPc, migrateRuns, addVars, recorded, queryVars, dateVars>>

\* ensureAttachmentUriColumn: PRAGMA table_info(transactions)
InitTableInfo(t) ==
    /\ initPc[t] = "tableInfo"
    /\ migrateRuns' = migrateRuns + 1
    /\ initPc' = [initPc EXCEPT ![t] =
                    IF hasAttachmentColumn(txColumns) THEN "done" ELSE "alter"]
    /\ UNCHANGED <<uiVars, tablesAtStart, dbVars, dbPromise, initPromise, callerPc, createRuns,
                   addVars, recorded, queryVars, dateVars>>

\* ensureAttachmentUriColumn: ALTER TABLE transactions ADD COLUMN attachmentUri
\* (SQLite rejects the statement when the column already exists)
InitAlter(t) ==
    /\ initPc[t] = "alter"
    /\ IF hasAttachmentColumn(txColumns)
       THEN /\ initPc' = [initPc EXCEPT ![t] = "failed"]
            /\ UNCHANGED txColumns
       ELSE /\ initPc' = [initPc EXCEPT ![t] = "done"]
            /\ txColumns' = txColumns \cup {"attachmentUri"}
    /\ UNCHANGED <<uiVars, tablesAtStart, tables, custom_categories, settings, transactions, dbPromise,
                   initPromise, callerPc, createRuns, migrateRuns,
                   addVars, recorded, queryVars, dateVars>>

\* `await initDatabaseAsync()` returns (or throws) in the caller
CallerResumes(c) ==
    /\ callerPc[c].at = "awaiting"
    /\ PromiseState(callerPc[c].awaits) \in {"resolved", "rejected"}
    /\ callerPc' = [callerPc EXCEPT ![c].at =
                      IF PromiseState(callerPc[c].awaits) = "resolved"
                      THEN "resumed" ELSE "threw"]
    /\ UNCHANGED <<uiVars, tablesAtStart, dbVars, dbPromise, initPromise, initPc, createRuns, migrateRuns,
                   addVars, recorded, queryVars, dateVars>>

NextSchema ==
    \/ \E c \in Callers : CallInit(c)
    \/ OpenSettles
    \/ \E t \in Callers : InitCreate(t)
    \/ \E t \in Callers : InitTableInfo(t)
    \/ \E t \in Callers : InitAlter(t)
    \/ \E c \in Callers : CallerResumes(c)

SpecSchema == InitSchema /\ [][NextSchema]_vars

----------------------------------------------------------------------------
(* Custom categories (src/db/categories.ts) and the add-expense screen's   *)
(* handlers that call them                                                 *)

\* what a screen starts from: the database opened and initialized
InitDone(d) ==
    /\ tables = InitializedDisk(d).tables
    /\ txColumns = InitializedDisk(d).txColumns
    /\ tablesAtStart = d.tables
    /\ dbPromise = "resolved"
    /\ initPromise = 1
    /\ initPc = [c \in Callers |-> IF c = 1 THEN "done" ELSE "none"]
    /\ callerPc = [c \in Callers |-> [at |-> "idle", awaits |-> NoPromise]]
    /\ createRuns = 1
    /\ migrateRuns = 1

\* names typed into the custom-category field
CategoryInputs ==
    { <<" ", "\t">>,
      <<" ", "t", "a", "x", "i">>,
      <<"P", "e", "t", "s">>,
      <<"p", "e", "t", "s", " ">>,
      <<"M", "y", " ", "\t", "S", "h", "o", "p">> }

\* rows.map((row) => normalizeCategoryName(row.name)).filter(length > 0)
RECURSIVE NormalizeRows(_)
NormalizeRows(rows) ==
    IF rows = <<>> THEN <<>>
    ELSE IF normalizeCategoryName(Head(rows)) # <<>>
         THEN <<normalizeCategoryName(Head(rows))>> \o NormalizeRows(Tail(rows))
         ELSE NormalizeRows(Tail(rows))

\* SELECT name FROM custom_categories ORDER BY datetime(created_at) DESC, id DESC
getCustomCategories(rows) == NormalizeRows(Reverse(rows))

\* DEFAULT_CATEGORIES.some((value) => value.toLowerCase() === normalizedNameKey)
hasDefaultCategory(normalizedNameKey) ==
    \E i \in 1..Len(DEFAULT_CATEGORIES) :
        toLowerCase(DEFAULT_CATEGORIES[i]) = normalizedNameKey

\* currentCustomCategories.some((value) => value.toLowerCase() === normalizedNameKey)
hasCustomCategory(currentCustomCategories, normalizedNameKey) ==
    \E i \in 1..Len(currentCustomCategories) :
        toLowerCase(currentCustomCategories[i]) = normalizedNameKey

\* a buggy variant whose comparison ignores letter case (COLLATE NOCASE)
RECURSIVE DeleteRows_IgnoreCase(_, _)
DeleteRows_IgnoreCase(rows, name) ==
    IF rows = <<>> THEN <<>>
    ELSE IF toLowerCase(Head(rows)) = toLowerCase(name)
         THEN DeleteRows_IgnoreCase(Tail(rows), name)
         ELSE <<Head(rows)>> \o DeleteRows_IgnoreCase(Tail(rows), name)

\* DELETE FROM custom_categories WHERE name = ?
RECURSIVE DeleteRows(_, _)
DeleteRows(rows, name) ==
    IF rows = <<>> THEN <<>>
    ELSE IF Head(rows) = name
         THEN DeleteRows(Tail(rows), name)
         ELSE <<Head(rows)>> \o DeleteRows(Tail(rows), name)

AddInFlight == {c \in Callers : addPc[c] \in {"reading", "inserting"}}

Threw(message) == [kind |-> "error", message |-> message]
Returned(value) == [kind |-> "ok", value |-> value]

\* handleAddCustomCategory, up to addCustomCategory's first database access:
\* the guard reads isAddingCustomCategory as captured by the rendered callback;
\* the empty-name and default-category checks throw before any query.
HandleAddCustomCategory(c, name) ==
    /\ addPc[c] \in {"idle", "done"}
    /\ ~renderedIsAdding
    /\ Len(custom_categories) + Cardinality(AddInFlight) < MaxCustom
    /\ addName' = [addName EXCEPT ![c] = name]
    /\ LET normalizedName == normalizeCategoryName(name)
       IN  IF normalizedName = <<>>
           THEN /\ addResult' = [addResult EXCEPT ![c] = Threw("Category name is required")]
                /\ addPc' = [addPc EXCEPT ![c] = "done"]
                /\ isAddingCustomCategory' = FALSE
           ELSE IF hasDefaultCategory(toLowerCase(normalizedName))
           THEN /\ addResult' = [addResult EXCEPT ![c] =
                                    Threw("This default category already exists")]
                /\ addPc' = [addPc EXCEPT ![c] = "done"]
                /\ isAddingCustomCategory' = FALSE
           ELSE /\ addResult' = [addResult EXCEPT ![c] = [kind |-> "none"]]
                /\ addPc' = [addPc EXCEPT ![c] = "reading"]
                /\ isAddingCustomCategory' = TRUE
    /\ UNCHANGED <<uiVars, dbVars, initVars, renderedIsAdding, recorded, queryVars, dateVars>>

\* React re-renders the screen: the callback now closes over the current flag
Render ==
    /\ renderedIsAdding # isAddingCustomCategory
    /\ renderedIsAdding' = isAddingCustomCategory
    /\ UNCHANGED <<uiVars, dbVars, initVars, addPc, addName, addResult, isAddingCustomCategory,
                   recorded, queryVars, dateVars>>

\* addCustomCategory: `await getCustomCategories()` and the duplicate check
AddRead(c) ==
    /\ addPc[c] = "reading"
    /\ LET normalizedName == normalizeCategoryName(addName[c])
       IN  IF "custom_categories" \notin tables
           THEN /\ addResult' = [addResult EXCEPT ![c] =
                                    Threw("no such table: custom_categories")]
                /\ addPc' = [addPc EXCEPT ![c] = "done"]
                /\ isAddingCustomCategory' = FALSE
           ELSE IF hasCustomCategory(getCustomCategories(custom_categories),
                                     toLowerCase(normalizedName))
           THEN /\ addResult' = [addResult EXCEPT ![c] =
                                    Threw("This custom category already exists")]
                /\ addPc' = [addPc EXCEPT ![c] = "done"]
                /\ isAddingCustomCategory' = FALSE
           ELSE /\ addPc' = [addPc EXCEPT ![c] = "inserting"]
                /\ UNCHANGED <<addResult, isAddingCustomCategory>>
    /\ UNCHANGED <<uiVars, dbVars, initVars, addName, renderedIsAdding, recorded, queryVars, dateVars>>

\* addCustomCategory: INSERT INTO custom_categories, then return normalizedName
AddInsert(c) ==
    /\ addPc[c] = "inserting"
    /\ LET normalizedName == normalizeCategoryName(addName[c])
       IN  /\ custom_categories' = Append(custom_categories, normalizedName)
           /\ addResult' = [addResult EXCEPT ![c] = Returned(normalizedName)]
    /\ addPc' = [addPc EXCEPT ![c] = "done"]
    /\ isAddingCustomCategory' = FALSE
    /\ UNCHANGED <<uiVars, tables, txColumns, settings, transactions, initVars, addName,
                   renderedIsAdding, recorded, queryVars, dateVars>>

\* deleteCustomCategory(name), one call run to completion: an empty name
\* returns before the DELETE, which throws when the table is missing
DeleteCustomCategory(name) ==
    /\ LET normalizedName == normalizeCategoryName(name)
       IN  IF normalizedName = <<>>
           THEN /\ UNCHANGED custom_categories
                /\ lastCall' = [op |-> "deleteCustomCategory", name |-> name, threw |-> FALSE]
           ELSE IF "custom_categories" \notin tables
           THEN /\ UNCHANGED custom_categories
                /\ lastCall' = [op |-> "deleteCustomCategory", name |-> name, threw |-> TRUE]
           ELSE /\ custom_categories' = DeleteRows(custom_categories, normalizedName)
                /\ lastCall' = [op |-> "deleteCustomCategory", name |-> name, threw |-> FALSE]
    /\ UNCHANGED <<loadVars, budgetVars, providerVars, screenVars, tables, txColumns, settings,
                   transactions, initVars, addVars, recorded, queryVars, dateVars>>

InitCategories ==
    /\ \E d \in DiskStates : InitDone(d)
    /\ EmptyStore /\ IdleScreens /\ NoDates

NextCategories ==
    \/ \E c \in Callers, name \in CategoryInputs : HandleAddCustomCategory(c, name)
    \/ Render
    \/ \E c \in Callers : AddRead(c)
    \/ \E c \in Callers : AddInsert(c)
    \/ \E name \in CategoryInputs : DeleteCustomCategory(name)

Spec == InitCategories /\ [][NextCategories]_vars

----------------------------------------------------------------------------
(* Claims about custom categories *)

\* the words of a string: its maximal runs of non-whitespace characters
RECURSIVE SplitWords(_, _, _)
SplitWords(s, word, acc) ==
    IF s = <<>> THEN (IF word = <<>> THEN acc ELSE Append(acc, word))
    ELSE IF Head(s) \in WhitespaceChars
         THEN SplitWords(Tail(s), <<>>, IF word = <<>> THEN acc ELSE Append(acc, word))
         ELSE SplitWords(Tail(s), Append(word, Head(s)), acc)

RECURSIVE JoinWords(_)
JoinWords(ws) ==
    IF ws = <<>> THEN <<>>
    ELSE IF Len(ws) = 1 THEN ws[1]
    ELSE ws[1] \o <<" ">> \o JoinWords(Tail(ws))

\* trimmed, inner whitespace runs collapsed to one space, casing kept
NormalForm(raw) == JoinWords(SplitWords(raw, <<>>, <<>>))

EqualIgnoringCase(a, b) == toLowerCase(a) = toLowerCase(b)

CollidesWithDefault(n) ==
    \E i \in 1..Len(DEFAULT_CATEGORIES) : EqualIgnoringCase(DEFAULT_CATEGORIES[i], n)

CollidesWithStored(n, rows) ==
    \E i \in 1..Len(rows) : EqualIgnoringCase(rows[i], n)

\* C1: whatever addCustomCategory and deleteCustomCategory calls have run,
\* interleaved or not, no two stored custom categories are equal ignoring
\* case and none equals a default category ignoring case.
C1_StoredCustomCategoriesUnique ==
    /\ \A i, j \in 1..Len(custom_categories) :
          i # j => ~EqualIgnoringCase(custom_categories[i], custom_categories[j])
    /\ \A i \in 1..Len(custom_categories) : ~CollidesWithDefault(custom_categories[i])

\* C2: a call of addCustomCategory(name) that completes while no other call
\* is in flight fails and leaves the stored categories unchanged when the
\* normalized name is empty, equals a default category ignoring case or
\* equals a stored custom category ignoring case; in every other case it
\* stores the normalized name and returns it.
C2_CompletesAsSpecified(c) ==
    LET n == NormalForm(addName'[c])
        rejected == \/ n = <<>>
                    \/ CollidesWithDefault(n)
                    \/ CollidesWithStored(n, custom_categories)
    IN  (/\ addPc[c] # "done" /\ addPc'[c] = "done"
         /\ \A q \in Callers \ {c} : addPc[q] \notin {"reading", "inserting"})
        => IF rejected
           THEN addResult'[c].kind = "error" /\ custom_categories' = custom_categories
           ELSE /\ addResult'[c] = Returned(n)
                /\ custom_categories' = Append(custom_categories, n)

C2_AddCustomCategoryContract == [][\A c \in Callers : C2_CompletesAsSpecified(c)]_vars

----------------------------------------------------------------------------
(* Recent categories (src/db/categories.ts over src/db/settings.ts) *)

MAX_RECENT_CATEGORIES == 5

RECENT_CATEGORIES_SETTING_KEY == "recentCategoriesJson"

Take(s, n) == SubSeq(s, 1, IF Len(s) < n THEN Len(s) ELSE n)

\* the value getSetting returns when no row has the key
Null == [kind |-> "none"]

\* SELECT value FROM settings WHERE key = ?  (getFirstAsync; row?.value ?? null)
getSetting(store, key) ==
    LET found == SelectSeq(store, LAMBDA row : row.key = key)
    IN  IF found = <<>> THEN Null ELSE Head(found).value

\* a buggy variant without the conflict clause: a plain INSERT of a new row
setSetting_InsertOnly(store, key, value) == Append(store, [key |-> key, value |-> value])

\* the position of the row holding a key, 0 when there is none
RowOfKey(store, key) ==
    IF \E i \in 1..Len(store) : store[i].key = key
    THEN CHOOSE i \in 1..Len(store) : store[i].key = key
    ELSE 0

\* INSERT INTO settings (key, value) VALUES (?, ?)
\* ON CONFLICT(key) DO UPDATE SET value = excluded.value
setSetting(store, key, value) ==
    IF RowOfKey(store, key) = 0
    THEN Append(store, [key |-> key, value |-> value])
    ELSE [store EXCEPT ![RowOfKey(store, key)].value = value]

\* a stored TEXT value
Text(chars) == [kind |-> "text", text |-> chars]

\* JavaScript truthiness of what getSetting returned: null and '' are falsy
Truthy(value) == value.kind # "none" /\ (value.kind = "text" => value.text # <<>>)

\* JSON.stringify of a list of strings: the text of a JSON array
JSONStringify(list) == [kind |-> "json_array", items |-> list]

\* the JSON texts that are a literal or an empty object
JSONLiteralTexts ==
    { <<"n", "u", "l", "l">>, <<"t", "r", "u", "e">>, <<"f", "a", "l", "s", "e">>,
      <<"{", "}">> }

\* a JSON number without sign, fraction or exponent
IsJSONInteger(text) ==
    /\ text # <<>>
    /\ \A i \in 1..Len(text) :
          text[i] \in {"0", "1", "2", "3", "4", "5", "6", "7", "8", "9"}
    /\ Len(text) > 1 => text[1] # "0"

\* a JSON string without escapes
IsJSONString(text) ==
    /\ Len(text) >= 2
    /\ text[1] = "\"" /\ text[Len(text)] = "\""
    /\ \A i \in 2..(Len(text) - 1) : text[i] \notin {"\"", "\\"}

\* JSON.parse of a stored value: the array JSON.stringify wrote, a string,
\* another JSON value, or a SyntaxError for a text that is not JSON
JSONParse(stored) ==
    IF stored.kind = "json_array" THEN [kind |-> "array", items |-> stored.items]
    ELSE IF IsJSONString(stored.text)
         THEN [kind |-> "string", chars |-> SubSeq(stored.text, 2, Len(stored.text) - 1)]
    ELSE IF stored.text \in JSONLiteralTexts \/ IsJSONInteger(stored.text)
         THEN [kind |-> "value"]
         ELSE [kind |-> "SyntaxError"]

\* Array.isArray
isArray(parsed) == parsed.kind = "array"

RECURSIVE DedupeLoop(_, _, _)
DedupeLoop(values, seen, result) ==
    IF values = <<>> THEN result
    ELSE LET normalized == normalizeCategoryName(Head(values))
             key == toLowerCase(normalized)
         IN  IF normalized = <<>> \/ key \in seen
             THEN DedupeLoop(Tail(values), seen, result)
             ELSE DedupeLoop(Tail(values), seen \cup {key}, Append(result, normalized))

dedupeCaseInsensitive(values) == DedupeLoop(values, {}, <<>>)

\* a buggy variant that iterates a parsed JSON string as if it were a list
getRecentCategories_NoArrayCheck(stored) ==
    IF ~Truthy(stored) THEN <<>>
    ELSE LET parsed == JSONParse(stored)
         IN  IF parsed.kind = "SyntaxError" THEN <<>>
             ELSE IF parsed.kind = "array"
                  THEN Take(dedupeCaseInsensitive(parsed.items), MAX_RECENT_CATEGORIES)
             ELSE IF parsed.kind = "string"
                  THEN Take(dedupeCaseInsensitive([i \in 1..Len(parsed.chars) |->
                                                     <<parsed.chars[i]>>]),
                            MAX_RECENT_CATEGORIES)
             ELSE <<>>

\* getRecentCategories, given what getSetting returned: the catch around
\* JSON.parse and the checks on the parsed value all give the empty list
getRecentCategories(stored) ==
    IF ~Truthy(stored) THEN <<>>
    ELSE LET parsed == JSONParse(stored)
         IN  IF parsed.kind = "SyntaxError" THEN <<>>
             ELSE IF ~isArray(parsed) THEN <<>>
             ELSE Take(dedupeCaseInsensitive(parsed.items), MAX_RECENT_CATEGORIES)

\* a buggy variant that prepends without removing the earlier entry
nextRecent_NoFilter(normalizedName, currentRecent) ==
    Take(<<normalizedName>> \o currentRecent, MAX_RECENT_CATEGORIES)

\* [normalizedName, ...currentRecent.filter(...)].slice(0, MAX_RECENT_CATEGORIES)
nextRecent(normalizedName, currentRecent) ==
    Take(<<normalizedName>> \o SelectNot(currentRecent, toLowerCase(normalizedName)),
         MAX_RECENT_CATEGORIES)

\* categories the add-expense screen can pass to recordRecentCategory
RecentInputs ==
    { <<" ">>,
      <<"C", "a", "f", "e">>,
      <<" ", "c", "a", "f", "e", "\t">>,
      <<"T", "a", "x", "i">>,
      <<"H", "o", "m", "e">>,
      <<"K", "i", "d", "s">>,
      <<"M", "y", " ", " ", "S", "h", "o", "p">>,
      <<"P", "e", "t", "s">> }

\* The names of RecentInputs differ only in their letters, so a history is
\* explored up to renaming: a name not used before enters the history in
\* the order below; every name used before may be used again at any time.
NewNameOrder ==
    << <<"c", "a", "f", "e">>, <<"m", "y", " ", "s", "h", "o", "p">>,
       <<"t", "a", "x", "i">>, <<"h", "o", "m", "e">>,
       <<"k", "i", "d", "s">>, <<"p", "e", "t", "s">> >>

UsedKeys == {toLowerCase(normalizeCategoryName(recorded[i])) : i \in 1..Len(recorded)}

MayRecordNext(key) ==
    \/ key \in UsedKeys
    \/ \E i \in 1..Len(NewNameOrder) :
          /\ NewNameOrder[i] = key
          /\ \A j \in 1..(i - 1) : NewNameOrder[j] \in UsedKeys

\* recordRecentCategory(name), one call run to completion
RecordRecentCategory(name) ==
    /\ Len(recorded) < MaxRecorded
    /\ LET normalizedName == normalizeCategoryName(name)
           currentRecent ==
               getRecentCategories(getSetting(settings, RECENT_CATEGORIES_SETTING_KEY))
       IN  IF normalizedName = <<>>
           THEN UNCHANGED <<settings, recorded>>
           ELSE /\ MayRecordNext(toLowerCase(normalizedName))
                /\ settings' = setSetting(settings, RECENT_CATEGORIES_SETTING_KEY,
                                  JSONStringify(nextRecent(normalizedName, currentRecent)))
                /\ recorded' = Append(recorded, name)
    /\ UNCHANGED <<uiVars, tables, txColumns, custom_categories, transactions, initVars, addVars,
                   queryVars, dateVars>>

InitRecent ==
    /\ InitDone(FreshDisk)
    /\ EmptyStore /\ IdleScreens /\ NoDates

NextRecent == \E name \in RecentInputs : RecordRecentCategory(name)

SpecRecent == InitRecent /\ [][NextRecent]_vars

----------------------------------------------------------------------------
(* Claims about recent categories *)

RecentList == getRecentCategories(getSetting(settings, RECENT_CATEGORIES_SETTING_KEY))

\* The names of a history by last use, newest first: walking the history
\* backwards, a name is kept (as written in that call) when no later call
\* used a name equal to it ignoring case.
RECURSIVE ByLastUse(_, _, _)
ByLastUse(history, laterKeys, acc) ==
    IF history = <<>> THEN acc
    ELSE LET name == NormalForm(history[Len(history)])
             earlier == SubSeq(history, 1, Len(history) - 1)
         IN  IF name = <<>> \/ toLowerCase(name) \in laterKeys
             THEN ByLastUse(earlier, laterKeys, acc)
             ELSE ByLastUse(earlier, laterKeys \cup {toLowerCase(name)}, Append(acc, name))

\* C3: after any sequence of recordRecentCategory calls with non-empty names
\* the recent list has at most 5 entries, no two equal ignoring case, starts
\* with the name recorded last, and lists the names in order of their last
\* use, newest first: it is the first five of the history's names by last use.
C3_RecentListIsLastFiveUses ==
    LET list == RecentList
        byLastUse == ByLastUse(recorded, {}, <<>>)
    IN  /\ Len(list) <= 5
        /\ \A i \in 1..Len(list) : \A j \in (i + 1)..Len(list) :
              ~EqualIgnoringCase(list[i], list[j])
        /\ recorded # <<>> => list # <<>> /\ list[1] = NormalForm(recorded[Len(recorded)])
        /\ list = SubSeq(byLastUse, 1, IF Len(byLastUse) < 5 THEN Len(byLastUse) ELSE 5)

\* six names, no two equal ignoring case, were recorded: one fell off the list
C3_Witness ==
    /\ Len(recorded) = 6
    /\ Cardinality({toLowerCase(NormalForm(recorded[u])) : u \in 1..Len(recorded)}) = 6
    /\ \A u \in 1..Len(recorded) : NormalForm(recorded[u]) # <<>>
    /\ Len(RecentList) = 5
    /\ RecentList[1] = NormalForm(recorded[6])
    /\ RecentList[5] = NormalForm(recorded[2])

----------------------------------------------------------------------------
(* Date-range utilities (src/utils/dateRanges.ts)                          *)
(*                                                                         *)
(* A Date is its local calendar fields: year y, month index m (0..11), day *)
(* of month d and hour h.                                                  *)

IsLeapYear(y) == (y % 4 = 0 /\ y % 100 # 0) \/ y % 400 = 0

\* days of month index m (0 = January) of year y
DaysInMonth(y, m) ==
    IF m = 1 THEN (IF IsLeapYear(y) THEN 29 ELSE 28)
    ELSE IF m \in {3, 5, 8, 10} THEN 30
    ELSE 31

\* Date's day carry: a day past the month's end moves into the next month,
\* a day before the 1st into the previous one
RECURSIVE NormalizeDay(_, _, _, _)
NormalizeDay(y, m, d, h) ==
    IF d < 1
    THEN (IF m = 0 THEN NormalizeDay(y - 1, 11, d + 31, h)
                   ELSE NormalizeDay(y, m - 1, d + DaysInMonth(y, m - 1), h))
    ELSE IF d > DaysInMonth(y, m)
    THEN (IF m = 11 THEN NormalizeDay(y + 1, 0, d - 31, h)
                    ELSE NormalizeDay(y, m + 1, d - DaysInMonth(y, m), h))
    ELSE [y |-> y, m |-> m, d |-> d, h |-> h]

\* new Date(year, monthIndex, day): local midnight; month 12 is next January
NewDate(year, monthIndex, day) ==
    NormalizeDay(year + (monthIndex \div 12), monthIndex % 12, day, 0)

\* days from 1970-01-01 to the Date's day (ECMAScript Day(t))
LeapDaysBefore(y) == ((y - 1) \div 4) - ((y - 1) \div 100) + ((y - 1) \div 400)

RECURSIVE DaysBeforeMonth(_, _)
DaysBeforeMonth(y, m) ==
    IF m = 0 THEN 0 ELSE DaysBeforeMonth(y, m - 1) + DaysInMonth(y, m - 1)

EpochDay(date) ==
    365 * (date.y - 1970) + LeapDaysBefore(date.y) - LeapDaysBefore(1970)
    + DaysBeforeMonth(date.y, date.m) + date.d - 1

\* Date.prototype.getDay: 0 is Sunday; 1970-01-01 was a Thursday
getDay(date) == (EpochDay(date) + 4) % 7

\* the time value two Dates are compared by
TimeValue(date) == EpochDay(date) * 24 + date.h

startOfDay(date) == NewDate(date.y, date.m, date.d)

\* a buggy variant that adds the days without carrying into the next month
addDays_NoCarry(date, days) == [date EXCEPT !.d = date.d + days]

\* next.setDate(next.getDate() + days)
addDays(date, days) == NormalizeDay(date.y, date.m, date.d + days, date.h)

DigitChars == <<"0", "1", "2", "3", "4", "5", "6", "7", "8", "9">>

\* `${n}`: the decimal digits of a non-negative integer
RECURSIVE ToDecimal(_)
ToDecimal(n) ==
    IF n < 10 THEN <<DigitChars[n + 1]>>
    ELSE ToDecimal(n \div 10) \o <<DigitChars[(n % 10) + 1]>>

\* padStart(2, '0')
padStart2(s) == IF Len(s) < 2 THEN <<"0">> \o s ELSE s

\* a buggy variant that formats the month index without the + 1
formatISODate_MonthIndex(date) ==
    ToDecimal(date.y) \o <<"-">> \o padStart2(ToDecimal(date.m))
                      \o <<"-">> \o padStart2(ToDecimal(date.d))

formatISODate(date) ==
    ToDecimal(date.y) \o <<"-">> \o padStart2(ToDecimal(date.m + 1))
                      \o <<"-">> \o padStart2(ToDecimal(date.d))

toISODateOnly(date) == formatISODate(date)

\* a buggy variant that treats Sunday as the day before Monday
getStartOfWeekMonday_SundayFirst(date) ==
    startOfDay(addDays(date, 1 - getDay(date)))

getStartOfWeekMonday(date) ==
    LET currentDay == getDay(date)
        diffToMonday == IF currentDay = 0 THEN -6 ELSE 1 - currentDay
    IN  startOfDay(addDays(date, diffToMonday))

getDayRange(date) ==
    LET from == startOfDay(date)
        to == addDays(from, 1)
    IN  [fromISO |-> formatISODate(from), toISO |-> formatISODate(to)]

getWeekRange(weekStartDate) ==
    LET from == getStartOfWeekMonday(weekStartDate)
        to == addDays(from, 7)
    IN  [fromISO |-> formatISODate(from), toISO |-> formatISODate(to)]

\* a buggy variant that ends the month at the first day of the same year's
\* next month index, wrapping December to January of the same year
getMonthRange_NoYearCarry(monthDate) ==
    LET from == NewDate(monthDate.y, monthDate.m, 1)
        to == NewDate(monthDate.y, (monthDate.m + 1) % 12, 1)
    IN  [fromISO |-> formatISODate(from), toISO |-> formatISODate(to)]

getMonthRange(monthDate) ==
    LET from == NewDate(monthDate.y, monthDate.m, 1)
        to == NewDate(monthDate.y, monthDate.m + 1, 1)
    IN  [fromISO |-> formatISODate(from), toISO |-> formatISODate(to)]

\* a buggy variant that does not order its two dates
getRangeRange_NoSwap(rangeStart, rangeEnd) ==
    [fromISO |-> formatISODate(startOfDay(rangeStart)),
     toISO |-> formatISODate(addDays(startOfDay(rangeEnd), 1))]

getRangeRange(rangeStart, rangeEnd) ==
    LET start == startOfDay(rangeStart)
        end == startOfDay(rangeEnd)
        from == IF TimeValue(start) <= TimeValue(end) THEN start ELSE end
        toInclusive == IF TimeValue(start) <= TimeValue(end) THEN end ELSE start
        toExclusive == addDays(toInclusive, 1)
    IN  [fromISO |-> formatISODate(from), toISO |-> formatISODate(toExclusive)]

\* the code unit of each character an ISO date holds
CharCode ==
    "-" :> 45 @@ "0" :> 48 @@ "1" :> 49 @@ "2" :> 50 @@ "3" :> 51 @@ "4" :> 52 @@
    "5" :> 53 @@ "6" :> 54 @@ "7" :> 55 @@ "8" :> 56 @@ "9" :> 57

\* text comparison of two strings, character by character (SQLite BINARY
\* collation; JavaScript's < on strings)
RECURSIVE StrLess(_, _)
StrLess(s, t) ==
    IF t = <<>> THEN FALSE
    ELSE IF s = <<>> THEN TRUE
    ELSE IF CharCode[Head(s)] # CharCode[Head(t)] THEN CharCode[Head(s)] < CharCode[Head(t)]
    ELSE StrLess(Tail(s), Tail(t))

StrLeq(s, t) == s = t \/ StrLess(s, t)

\* Dates handed to the utilities: every day of FirstYear .. FirstYear +
\* YearSpan (a leap year among them), early and late in the day
FirstYear == 2023
YearSpan == 2
HourInputs == {0, 23}

DateInputs ==
    {[y |-> y, m |-> m, d |-> d, h |-> h] :
        y \in FirstYear..(FirstYear + YearSpan), m \in 0..11, d \in 1..31, h \in HourInputs}

ValidDates == {date \in DateInputs : date.d <= DaysInMonth(date.y, date.m)}

\* second dates of a custom range: ends of months and years, the leap day
RangeEndInputs ==
    { [y |-> 2023, m |-> 11, d |-> 31, h |-> 23],
      [y |-> 2024, m |-> 0, d |-> 1, h |-> 0],
      [y |-> 2024, m |-> 1, d |-> 28, h |-> 0],
      [y |-> 2024, m |-> 1, d |-> 29, h |-> 23],
      [y |-> 2024, m |-> 2, d |-> 1, h |-> 0],
      [y |-> 2024, m |-> 5, d |-> 30, h |-> 0],
      [y |-> 2024, m |-> 11, d |-> 31, h |-> 0],
      [y |-> 2025, m |-> 0, d |-> 1, h |-> 23] }

InitDates ==
    /\ InitDone(FreshDisk)
    /\ EmptyStore /\ IdleScreens
    /\ dateA \in ValidDates
    /\ dateB \in RangeEndInputs
    /\ rangeOp = "none"
    /\ rangeResult = [fromISO |-> <<>>, toISO |-> <<>>]

DoGetDayRange ==
    /\ rangeOp = "none"
    /\ rangeOp' = "day"
    /\ rangeResult' = getDayRange(dateA)
    /\ UNCHANGED <<uiVars, dbVars, initVars, addVars, recorded, queryVars, dateA, dateB>>

DoGetWeekRange ==
    /\ rangeOp = "none"
    /\ rangeOp' = "week"
    /\ rangeResult' = getWeekRange(dateA)
    /\ UNCHANGED <<uiVars, dbVars, initVars, addVars, recorded, queryVars, dateA, dateB>>

DoGetMonthRange ==
    /\ rangeOp = "none"
    /\ rangeOp' = "month"
    /\ rangeResult' = getMonthRange(dateA)
    /\ UNCHANGED <<uiVars, dbVars, initVars, addVars, recorded, queryVars, dateA, dateB>>

DoGetRangeRange ==
    /\ rangeOp = "none"
    /\ rangeOp' = "range"
    /\ rangeResult' = getRangeRange(dateA, dateB)
    /\ UNCHANGED <<uiVars, dbVars, initVars, addVars, recorded, queryVars, dateA, dateB>>

DoGetRangeRangeReversed ==
    /\ rangeOp = "none"
    /\ rangeOp' = "range_reversed"
    /\ rangeResult' = getRangeRange(dateB, dateA)
    /\ UNCHANGED <<uiVars, dbVars, initVars, addVars, recorded, queryVars, dateA, dateB>>

NextDates ==
    \/ DoGetDayRange
    \/ DoGetWeekRange
    \/ DoGetMonthRange
    \/ DoGetRangeRange
    \/ DoGetRangeRangeReversed

SpecDates == InitDates /\ [][NextDates]_vars

----------------------------------------------------------------------------
(* Claims about the date-range utilities.  The calendar the claims speak   *)
(* of is computed here from the printed ISO strings, by the Julian day     *)
(* number, independently of the Date arithmetic above.                     *)

DigitValue(c) == CHOOSE n \in 0..9 : DigitChars[n + 1] = c

IsDigits(s, from, to) == \A i \in from..to : \E n \in 0..9 : DigitChars[n + 1] = s[i]

\* the string has the shape YYYY-MM-DD
IsISOShape(s) ==
    /\ Len(s) = 10
    /\ s[5] = "-" /\ s[8] = "-"
    /\ IsDigits(s, 1, 4) /\ IsDigits(s, 6, 7) /\ IsDigits(s, 9, 10)

\* the year, month (1..12) and day an ISO string names
ParseISO(s) ==
    [y |-> 1000 * DigitValue(s[1]) + 100 * DigitValue(s[2])
           + 10 * DigitValue(s[3]) + DigitValue(s[4]),
     m |-> 10 * DigitValue(s[6]) + DigitValue(s[7]),
     d |-> 10 * DigitValue(s[9]) + DigitValue(s[10])]

MonthLength(y, m) ==
    IF m = 2 THEN (IF (y % 4 = 0 /\ y % 100 # 0) \/ y % 400 = 0 THEN 29 ELSE 28)
    ELSE IF m \in {4, 6, 9, 11} THEN 30 ELSE 31

\* the string names a day of the calendar
IsCalendarDay(s) ==
    /\ IsISOShape(s)
    /\ ParseISO(s).m \in 1..12
    /\ ParseISO(s).d \in 1..MonthLength(ParseISO(s).y, ParseISO(s).m)

\* Julian day number of year y, month m (1..12), day d
JulianDay(y, m, d) ==
    LET a == (14 - m) \div 12
        yy == y + 4800 - a
        mm == m + 12 * a - 3
    IN  d + ((153 * mm + 2) \div 5) + 365 * yy + (yy \div 4) - (yy \div 100)
          + (yy \div 400) - 32045

DayOfISO(s) == JulianDay(ParseISO(s).y, ParseISO(s).m, ParseISO(s).d)

DayOfDate(date) == JulianDay(date.y, date.m + 1, date.d)

\* 0 is Monday ... 6 is Sunday
WeekdayFromMonday(julianDay) == julianDay % 7

\* C7: getDayRange(d) returns toISO naming the calendar day after fromISO,
\* and d's own ISO date satisfies fromISO <= iso(d) < toISO (as the strings
\* are compared), on the last day of a month and of a year too.
C7_DayRangeIsOneDay ==
    rangeOp = "day" =>
        /\ IsCalendarDay(rangeResult.fromISO)
        /\ IsCalendarDay(rangeResult.toISO)
        /\ DayOfISO(rangeResult.toISO) = DayOfISO(rangeResult.fromISO) + 1
        /\ DayOfISO(rangeResult.fromISO) = DayOfDate(dateA)
        /\ StrLeq(rangeResult.fromISO, toISODateOnly(dateA))
        /\ StrLess(toISODateOnly(dateA), rangeResult.toISO)

\* the day range of the last evening of a leap year
C7_Witness ==
    /\ rangeOp = "day"
    /\ dateA = [y |-> 2024, m |-> 11, d |-> 31, h |-> 23]
    /\ rangeResult.fromISO = <<"2", "0", "2", "4", "-", "1", "2", "-", "3", "1">>
    /\ rangeResult.toISO = <<"2", "0", "2", "5", "-", "0", "1", "-", "0", "1">>

\* C8: getWeekRange(d) returns a fromISO that is a Monday, not later than d
\* and at most 6 days before d, and a toISO exactly 7 days after fromISO.
C8_WeekRangeStartsMonday ==
    rangeOp = "week" =>
        /\ IsCalendarDay(rangeResult.fromISO)
        /\ IsCalendarDay(rangeResult.toISO)
        /\ WeekdayFromMonday(DayOfISO(rangeResult.fromISO)) = 0
        /\ DayOfISO(rangeResult.fromISO) <= DayOfDate(dateA)
        /\ DayOfDate(dateA) - DayOfISO(rangeResult.fromISO) <= 6
        /\ DayOfISO(rangeResult.toISO) = DayOfISO(rangeResult.fromISO) + 7

\* Sunday 3 March 2024 belongs to the week of Monday 26 February
C8_Witness ==
    /\ rangeOp = "week"
    /\ dateA = [y |-> 2024, m |-> 2, d |-> 3, h |-> 0]
    /\ WeekdayFromMonday(DayOfDate(dateA)) = 6
    /\ rangeResult.fromISO = <<"2", "0", "2", "4", "-", "0", "2", "-", "2", "6">>
    /\ rangeResult.toISO = <<"2", "0", "2", "4", "-", "0", "3", "-", "0", "4">>

MinOf(a, b) == IF a <= b THEN a ELSE b
MaxOf(a, b) == IF a <= b THEN b ELSE a

\* C9: getRangeRange(a, b) equals getRangeRange(b, a); its fromISO is the
\* earlier of the two days and its toISO the day after the later one.
C9_RangeRangeIsSymmetric ==
    rangeOp \in {"range", "range_reversed"} =>
        /\ IsCalendarDay(rangeResult.fromISO)
        /\ IsCalendarDay(rangeResult.toISO)
        /\ DayOfISO(rangeResult.fromISO) = MinOf(DayOfDate(dateA), DayOfDate(dateB))
        /\ DayOfISO(rangeResult.toISO) = MaxOf(DayOfDate(dateA), DayOfDate(dateB)) + 1
        /\ rangeResult = IF rangeOp = "range" THEN getRangeRange(dateB, dateA)
                                               ELSE getRangeRange(dateA, dateB)

\* a range given end first, across the leap day
C9_Witness ==
    /\ rangeOp = "range"
    /\ dateA = [y |-> 2024, m |-> 2, d |-> 10, h |-> 0]
    /\ dateB = [y |-> 2024, m |-> 1, d |-> 28, h |-> 0]
    /\ rangeResult.fromISO = <<"2", "0", "2", "4", "-", "0", "2", "-", "2", "8">>
    /\ rangeResult.toISO = <<"2", "0", "2", "4", "-", "0", "3", "-", "1", "1">>

----------------------------------------------------------------------------
(* Transactions and the analytics queries                                  *)
(* (src/db/transactions.ts, src/db/analytics.ts).  Amounts are whole       *)
(* numbers of the currency's smallest unit, so sums are exact.             *)

Cafe == DEFAULT_CATEGORIES[3]
Taxi == DEFAULT_CATEGORIES[17]

\* expenses the add-expense form can save: amount, category, expense date
TxInputs ==
    { [amount |-> 10, category |-> Cafe, expenseDate |-> [y |-> 2024, m |-> 2, d |-> 1, h |-> 9]],
      [amount |-> 20, category |-> Taxi, expenseDate |-> [y |-> 2024, m |-> 2, d |-> 31, h |-> 23]],
      [amount |-> 5, category |-> Cafe, expenseDate |-> [y |-> 2024, m |-> 3, d |-> 1, h |-> 0]],
      [amount |-> 80, category |-> Cafe, expenseDate |-> [y |-> 2024, m |-> 11, d |-> 31, h |-> 12]],
      [amount |-> 160, category |-> Taxi, expenseDate |-> [y |-> 2025, m |-> 0, d |-> 1, h |-> 0]] }

\* addTransaction: INSERT INTO transactions (id, amount, category, ..., date, createdAt)
AddTransaction(input) ==
    /\ Len(transactions) < MaxTx
    /\ "transactions" \in tables
    /\ transactions' = Append(transactions,
                          [id |-> Len(transactions) + 1,
                           amount |-> input.amount,
                           category |-> input.category,
                           date |-> toISODateOnly(input.expenseDate)])
    /\ query' = [op |-> "none"]
    /\ queryResult' = [op |-> "none"]
    /\ UNCHANGED <<uiVars, tables, txColumns, custom_categories, settings, initVars, addVars,
                   recorded, dateVars>>

RECURSIVE SumAmounts(_)
\* SUM(amount)
SumAmounts(rows) ==
    IF rows = <<>> THEN 0 ELSE Head(rows).amount + SumAmounts(Tail(rows))

\* a buggy variant whose upper bound is inclusive: WHERE date >= ? AND date <= ?
getTotal_InclusiveTo(rows, fromISO, toISO) ==
    SumAmounts(SelectSeq(rows, LAMBDA row : StrLeq(fromISO, row.date) /\ StrLeq(row.date, toISO)))

\* SELECT COALESCE(SUM(amount), 0) FROM transactions WHERE date >= ? AND date < ?
getTotal(rows, fromISO, toISO) ==
    SumAmounts(SelectSeq(rows, LAMBDA row : StrLeq(fromISO, row.date) /\ StrLess(row.date, toISO)))

\* a buggy variant whose lower bound is exclusive: WHERE date > ? AND date < ?
CategoryTotalRows_ExclusiveFrom(rows, fromISO, toISO) ==
    LET selected == SelectSeq(rows,
                       LAMBDA row : StrLess(fromISO, row.date) /\ StrLess(row.date, toISO))
    IN  { [category |-> c,
           total |-> SumAmounts(SelectSeq(selected, LAMBDA row : row.category = c))] :
          c \in {selected[i].category : i \in 1..Len(selected)} }

\* SELECT category, COALESCE(SUM(amount), 0) as total FROM transactions
\* WHERE date >= ? AND date < ? GROUP BY category
CategoryTotalRows(rows, fromISO, toISO) ==
    LET selected == SelectSeq(rows,
                       LAMBDA row : StrLeq(fromISO, row.date) /\ StrLess(row.date, toISO))
    IN  { [category |-> c,
           total |-> SumAmounts(SelectSeq(selected, LAMBDA row : row.category = c))] :
          c \in {selected[i].category : i \in 1..Len(selected)} }

\* SELECT date, COALESCE(SUM(amount), 0) as total FROM transactions
\* WHERE date >= ? AND date < ? GROUP BY date
DayTotalRows(rows, fromISO, toISO) ==
    LET selected == SelectSeq(rows,
                       LAMBDA row : StrLeq(fromISO, row.date) /\ StrLess(row.date, toISO))
    IN  { [date |-> d,
           total |-> SumAmounts(SelectSeq(selected, LAMBDA row : row.date = d))] :
          d \in {selected[i].date : i \in 1..Len(selected)} }

\* ORDER BY total DESC: every order of the rows in which totals do not
\* increase (the order of rows with equal totals is the engine's choice)
RECURSIVE OrderedByTotalDesc(_)
OrderedByTotalDesc(rowSet) ==
    IF rowSet = {} THEN {<<>>}
    ELSE UNION { {<<first>> \o rest : rest \in OrderedByTotalDesc(rowSet \ {first})} :
                 first \in {r \in rowSet : \A other \in rowSet : other.total <= r.total} }

\* the results getCategoryTotals(fromISO, toISO) can return
getCategoryTotals(rows, fromISO, toISO) ==
    OrderedByTotalDesc(CategoryTotalRows(rows, fromISO, toISO))

\* a buggy variant that cuts to the limit before ordering
getTopSpendingDays_LimitFirst(rows, fromISO, toISO, limit) ==
    UNION { OrderedByTotalDesc(kept) :
            kept \in {k \in SUBSET DayTotalRows(rows, fromISO, toISO) :
                         Cardinality(k) = IF Cardinality(DayTotalRows(rows, fromISO, toISO)) < limit
                                          THEN Cardinality(DayTotalRows(rows, fromISO, toISO))
                                          ELSE limit} }

\* the results getTopSpendingDays(fromISO, toISO, limit) can return
getTopSpendingDays(rows, fromISO, toISO, limit) ==
    {Take(ordered, limit) : ordered \in OrderedByTotalDesc(DayTotalRows(rows, fromISO, toISO))}

DEFAULT_TOP_DAYS_LIMIT == 10

\* range bounds handed to the queries
QueryBounds ==
    { formatISODate([y |-> 2024, m |-> 2, d |-> 1, h |-> 0]),
      formatISODate([y |-> 2024, m |-> 3, d |-> 1, h |-> 0]),
      formatISODate([y |-> 2025, m |-> 0, d |-> 1, h |-> 0]) }

\* dates whose month the analytics screen shows
MonthInputs ==
    { [y |-> 2024, m |-> 2, d |-> 10, h |-> 12],
      [y |-> 2024, m |-> 2, d |-> 31, h |-> 23],
      [y |-> 2024, m |-> 11, d |-> 15, h |-> 0],
      [y |-> 2025, m |-> 0, d |-> 31, h |-> 0] }

\* the three aggregation queries over one range, on the table as it is
RunQueries(op, date, fromISO, toISO) ==
    /\ "transactions" \in tables
    /\ query' = [op |-> op, date |-> date, fromISO |-> fromISO, toISO |-> toISO]
    /\ \E categoryTotals \in getCategoryTotals(transactions, fromISO, toISO),
          topDays \in getTopSpendingDays(transactions, fromISO, toISO, DEFAULT_TOP_DAYS_LIMIT) :
          queryResult' = [op |-> op,
                          total |-> getTotal(transactions, fromISO, toISO),
                          categoryTotals |-> categoryTotals,
                          topDays |-> topDays]
    /\ UNCHANGED <<uiVars, dbVars, initVars, addVars, recorded, dateVars>>

\* the queries over an explicit range
QueryRange(fromISO, toISO) ==
    RunQueries("range", [y |-> 0, m |-> 0, d |-> 0, h |-> 0], fromISO, toISO)

\* the queries over getMonthRange(monthDate)
QueryMonth(monthDate) ==
    RunQueries("month", monthDate,
               getMonthRange(monthDate).fromISO, getMonthRange(monthDate).toISO)

InitAnalytics ==
    /\ InitDone(FreshDisk)
    /\ EmptyStore /\ IdleScreens /\ NoDates

NextAnalytics ==
    \/ \E input \in TxInputs : AddTransaction(input)
    \/ \E fromISO \in QueryBounds, toISO \in QueryBounds : QueryRange(fromISO, toISO)
    \/ \E monthDate \in MonthInputs : QueryMonth(monthDate)

SpecAnalytics == InitAnalytics /\ [][NextAnalytics]_vars

----------------------------------------------------------------------------
(* Claims about the analytics queries.  Which transactions a range holds   *)
(* is decided here by the calendar (Julian day numbers of the dates), not  *)
(* by comparing strings.                                                   *)

RECURSIVE SumTotals(_)
SumTotals(resultRows) ==
    IF resultRows = <<>> THEN 0 ELSE Head(resultRows).total + SumTotals(Tail(resultRows))

\* the stored transactions dated from the day fromISO up to, not including, toISO
StoredWithin(fromISO, toISO) ==
    {i \in 1..Len(transactions) :
        /\ DayOfISO(fromISO) <= DayOfISO(transactions[i].date)
        /\ DayOfISO(transactions[i].date) < DayOfISO(toISO)}

RECURSIVE SumOver(_)
\* the sum of the amounts of a set of stored transactions
SumOver(indices) ==
    IF indices = {} THEN 0
    ELSE LET i == CHOOSE i \in indices : TRUE
         IN  transactions[i].amount + SumOver(indices \ {i})

\* C4: for any stored transactions and any range, on one snapshot, the totals
\* returned by getCategoryTotals add up to getTotal; when no transaction
\* falls in the range getCategoryTotals returns [] and getTotal returns 0.
C4_CategoryTotalsAddUpToTotal ==
    query.op # "none" =>
        /\ SumTotals(queryResult.categoryTotals) = queryResult.total
        /\ StoredWithin(query.fromISO, query.toISO) = {} =>
              queryResult.categoryTotals = <<>> /\ queryResult.total = 0

\* two categories have transactions in the range, others lie outside it
C4_Witness ==
    /\ query.op = "range"
    /\ Len(queryResult.categoryTotals) = 2
    /\ queryResult.total = 30
    /\ Len(transactions) = 3

\* C5: getTotal, getCategoryTotals and getTopSpendingDays count a transaction
\* if and only if fromISO <= date < toISO: one dated exactly fromISO is
\* counted, one dated exactly toISO is not.
C5_RangeIsHalfOpen ==
    query.op # "none" =>
        LET within == StoredWithin(query.fromISO, query.toISO)
        IN  /\ queryResult.total = SumOver(within)
            /\ SeqToSet(queryResult.categoryTotals) =
                  { [category |-> c,
                     total |-> SumOver({i \in within : transactions[i].category = c})] :
                    c \in {transactions[i].category : i \in within} }
            /\ Len(queryResult.categoryTotals) =
                  Cardinality({transactions[i].category : i \in within})
            /\ SeqToSet(queryResult.topDays) =
                  { [date |-> d,
                     total |-> SumOver({i \in within : transactions[i].date = d})] :
                    d \in {transactions[i].date : i \in within} }
            /\ Len(queryResult.topDays) = Cardinality({transactions[i].date : i \in within})

\* a transaction dated exactly fromISO and one dated exactly toISO are stored
C5_Witness ==
    /\ query.op = "range"
    /\ \E i, j \in 1..Len(transactions) :
          /\ transactions[i].date = query.fromISO
          /\ transactions[j].date = query.toISO
          /\ queryResult.total = transactions[i].amount
          /\ queryResult.topDays = <<[date |-> query.fromISO, total |-> transactions[i].amount]>>

\* the stored transactions dated in the calendar month of a Date
StoredInMonthOf(date) ==
    {i \in 1..Len(transactions) :
        /\ ParseISO(transactions[i].date).y = date.y
        /\ ParseISO(transactions[i].date).m = date.m + 1}

\* C6: getTotal over getMonthRange(d) is the sum of the amounts of exactly the
\* transactions dated in d's calendar month; the range runs from the first
\* day of d's month to the first day of the following month, across the
\* December-to-January rollover too.
C6_MonthTotalIsCalendarMonth ==
    query.op = "month" =>
        /\ queryResult.total = SumOver(StoredInMonthOf(query.date))
        /\ IsCalendarDay(query.fromISO) /\ IsCalendarDay(query.toISO)
        /\ ParseISO(query.fromISO) = [y |-> query.date.y, m |-> query.date.m + 1, d |-> 1]
        /\ ParseISO(query.toISO) =
              IF query.date.m = 11
              THEN [y |-> query.date.y + 1, m |-> 1, d |-> 1]
              ELSE [y |-> query.date.y, m |-> query.date.m + 2, d |-> 1]

\* 1 March (10), 31 March (20) and 1 April (5) are stored; March totals 30
C6_Witness ==
    /\ query.op = "month"
    /\ query.date = [y |-> 2024, m |-> 2, d |-> 10, h |-> 12]
    /\ {[amount |-> transactions[i].amount, date |-> ParseISO(transactions[i].date)] :
           i \in 1..Len(transactions)} =
          { [amount |-> 10, date |-> [y |-> 2024, m |-> 3, d |-> 1]],
            [amount |-> 20, date |-> [y |-> 2024, m |-> 3, d |-> 31]],
            [amount |-> 5, date |-> [y |-> 2024, m |-> 4, d |-> 1]] }
    /\ queryResult.total = 30

----------------------------------------------------------------------------
(* Claim about schema initialization under SpecSchema.                     *)

\* C10: however many callers invoke initDatabaseAsync before the first
\* invocation has completed, the CREATE TABLE batch and the attachmentUri
\* migration never run a second time, every caller awaits the one memoized
\* promise, no caller continues before that initialization has settled, and a
\* caller that returns normally finds both to have run exactly once.
C10_InitializationRunsOnce ==
    /\ createRuns <= 1
    /\ migrateRuns <= 1
    /\ \A c \in Callers :
          /\ callerPc[c].at # "idle" =>
                initPromise # NoPromise /\ callerPc[c].awaits = initPromise
          /\ callerPc[c].at \in {"resumed", "threw"} =>
                PromiseState(initPromise) \in {"resolved", "rejected"}
          /\ callerPc[c].at = "resumed" =>
                /\ PromiseState(initPromise) = "resolved"
                /\ createRuns = 1
                /\ migrateRuns = 1
                /\ {"transactions", "settings"} \subseteq tables
                /\ hasAttachmentColumn(txColumns)

\* every caller has called and waits while the one initialization is in the
\* middle of the migration of a database created before attachmentUri existed
C10_Witness ==
    /\ \A c \in Callers : callerPc[c].at = "awaiting"
    /\ initPc[initPromise] = "alter"
    /\ createRuns = 1
    /\ migrateRuns = 1
    /\ ~hasAttachmentColumn(txColumns)

----------------------------------------------------------------------------
(* Analytics screen (app/(tabs)/explore.tsx): loadAnalytics and its        *)
(* request counter                                                         *)

Loads == 1..MaxLoads

\* rows of transactions already stored when the screen is opened
StoredSample ==
    << [id |-> 1, amount |-> 10, category |-> Cafe,
        date |-> toISODateOnly([y |-> 2024, m |-> 2, d |-> 1, h |-> 9])],
       [id |-> 2, amount |-> 20, category |-> Taxi,
        date |-> toISODateOnly([y |-> 2024, m |-> 2, d |-> 31, h |-> 23])],
       [id |-> 3, amount |-> 5, category |-> Cafe,
        date |-> toISODateOnly([y |-> 2024, m |-> 3, d |-> 1, h |-> 0])] >>

\* (fromISO, toISO, hasCompleteRange) the focus effect can pass: two
\* complete periods, and a range whose ends are not both chosen yet
LoadInputs ==
    { [fromISO |-> getMonthRange([y |-> 2024, m |-> 2, d |-> 10, h |-> 12]).fromISO,
       toISO |-> getMonthRange([y |-> 2024, m |-> 2, d |-> 10, h |-> 12]).toISO,
       shouldLoad |-> TRUE],
      [fromISO |-> getMonthRange([y |-> 2024, m |-> 3, d |-> 2, h |-> 0]).fromISO,
       toISO |-> getMonthRange([y |-> 2024, m |-> 3, d |-> 2, h |-> 0]).toISO,
       shouldLoad |-> TRUE],
      [fromISO |-> <<>>, toISO |-> <<>>, shouldLoad |-> FALSE] }

\* a buggy variant that never treats a request as superseded
isStale_Never(requestId, current) == FALSE

\* if (requestId !== requestIdRef.current) return;
isStale(requestId, current) == requestId # current

\* t('failedToLoadStats')
failedToLoadStats == "failedToLoadStats"

\* loadAnalytics(nextFromISO, nextToISO, shouldLoad) up to its await (or to
\* its return when shouldLoad is false)
loadAnalytics(input) ==
    /\ requestIdRef < MaxLoads
    /\ LET requestId == requestIdRef + 1
       IN  /\ requestIdRef' = requestId
           /\ IF ~input.shouldLoad
              THEN /\ analytics' = [categoryTotals |-> <<>>, total |-> 0,
                                    isLoading |-> FALSE, error |-> ""]
                   /\ loads' = [loads EXCEPT ![requestId] =
                                   [pc |-> "done", requestId |-> requestId, input |-> input,
                                    outcome |-> [kind |-> "skipped"]]]
              ELSE /\ analytics' = [analytics EXCEPT !.error = "", !.isLoading = TRUE]
                   /\ loads' = [loads EXCEPT ![requestId] =
                                   [pc |-> "awaiting", requestId |-> requestId,
                                    input |-> input]]

\* the focus effect calls loadAnalytics with the period on screen
StartLoad(input) ==
    /\ loadAnalytics(input)
    /\ UNCHANGED <<dbVars, initVars, addVars, recorded, queryVars, dateVars, lastCall,
                   budgetVars, providerVars, screenVars>>

\* Promise.all([getCategoryTotals, getTotal]) resolves and the request resumes
LoadResolves(r) ==
    /\ loads[r].pc = "awaiting"
    /\ "transactions" \in tables
    /\ \E totals \in getCategoryTotals(transactions, loads[r].input.fromISO,
                                      loads[r].input.toISO) :
          LET overall == getTotal(transactions, loads[r].input.fromISO, loads[r].input.toISO)
          IN  /\ loads' = [loads EXCEPT ![r] =
                              [pc |-> "done", requestId |-> loads[r].requestId,
                               input |-> loads[r].input,
                               outcome |-> [kind |-> "loaded", totals |-> totals,
                                            overall |-> overall]]]
              /\ analytics' =
                    IF isStale(loads[r].requestId, requestIdRef) THEN analytics
                    ELSE [analytics EXCEPT !.categoryTotals = totals, !.total = overall,
                                           !.isLoading = FALSE]
    /\ UNCHANGED <<dbVars, initVars, addVars, recorded, queryVars, dateVars, requestIdRef,
                   lastCall, budgetVars, providerVars, screenVars>>

\* one of the two queries rejects: catch, then finally
LoadRejects(r) ==
    /\ loads[r].pc = "awaiting"
    /\ loads' = [loads EXCEPT ![r] =
                    [pc |-> "done", requestId |-> loads[r].requestId,
                     input |-> loads[r].input, outcome |-> [kind |-> "failed"]]]
    /\ analytics' =
          IF isStale(loads[r].requestId, requestIdRef) THEN analytics
          ELSE [analytics EXCEPT !.error = failedToLoadStats, !.isLoading = FALSE]
    /\ UNCHANGED <<dbVars, initVars, addVars, recorded, queryVars, dateVars, requestIdRef,
                   lastCall, budgetVars, providerVars, screenVars>>

InitLoads ==
    /\ InitDone(FreshDisk)
    /\ custom_categories = <<>>
    /\ settings = <<>>
    /\ transactions = StoredSample
    /\ IdleScreens /\ NoDates

NextLoads ==
    \/ \E input \in LoadInputs : StartLoad(input)
    \/ \E r \in Loads : LoadResolves(r)
    \/ \E r \in Loads : LoadRejects(r)

SpecLoads == InitLoads /\ [][NextLoads]_vars

\* what the screen shows once request r, the most recently started one, has
\* got as far as it has
ShowsRequest(r) ==
    IF loads[r].pc = "awaiting"
    THEN analytics.isLoading /\ analytics.error = ""
    ELSE IF loads[r].outcome.kind = "skipped"
    THEN analytics = [categoryTotals |-> <<>>, total |-> 0, isLoading |-> FALSE, error |-> ""]
    ELSE IF loads[r].outcome.kind = "loaded"
    THEN analytics = [categoryTotals |-> loads[r].outcome.totals,
                      total |-> loads[r].outcome.overall,
                      isLoading |-> FALSE, error |-> ""]
    ELSE analytics.error = failedToLoadStats /\ ~analytics.isLoading

\* C11: the category totals, total and error on the analytics screen are set
\* only by the most recently started loadAnalytics request: a step of a
\* request that a newer one has superseded changes nothing on screen, and
\* the screen always shows what the newest request has delivered so far.
C11_OnlyNewestRequestUpdatesScreen ==
    /\ [](\A r \in Loads : (loads[r].pc # "idle" /\ r = requestIdRef) => ShowsRequest(r))
    /\ [][\A r \in Loads :
             (loads'[r] # loads[r] /\ loads'[r].requestId # requestIdRef') =>
                 analytics' = analytics]_vars

\* the first request's result arrived after a second request was started and
\* is still in flight: the screen does not show it
C11_Witness ==
    /\ requestIdRef = 2
    /\ loads[1].pc = "done" /\ loads[1].outcome.kind = "loaded"
    /\ loads[1].outcome.overall = 30
    /\ loads[2].pc = "awaiting"
    /\ analytics.total = 0 /\ analytics.categoryTotals = <<>>
    /\ analytics.isLoading

----------------------------------------------------------------------------
(* Currency setting (src/db/settings.ts, src/utils/money.ts)               *)

CURRENCY_SETTING_KEY == "currency"
LEGACY_CURRENCY_SETTING_KEY == "currencyCode"

EUR == <<"E", "U", "R">>
USD == <<"U", "S", "D">>
GBP == <<"G", "B", "P">>
RUB == <<"R", "U", "B">>
SUPPORTED_CURRENCIES == <<EUR, USD, GBP, RUB>>

\* toCurrencyCode: the code itself when it is a supported one, else 'EUR'
toCurrencyCode(value) ==
    IF Truthy(value) /\ value.kind = "text"
       /\ \E i \in 1..Len(SUPPORTED_CURRENCIES) : SUPPORTED_CURRENCIES[i] = value.text
    THEN value.text
    ELSE EUR

parseCurrencyCode(value) == toCurrencyCode(value)

\* a buggy variant that returns the legacy value without writing it back
getCurrencySetting_NoRepair(store) ==
    LET stored == getSetting(store, CURRENCY_SETTING_KEY)
        legacyStored == getSetting(store, LEGACY_CURRENCY_SETTING_KEY)
    IN  IF Truthy(stored)
        THEN [result |-> parseCurrencyCode(stored), store |-> store, readLegacy |-> FALSE]
        ELSE [result |-> parseCurrencyCode(legacyStored), store |-> store,
              readLegacy |-> TRUE]

\* getCurrencySetting: what it returns, the settings rows it leaves, and
\* whether it read the legacy key
getCurrencySetting(store) ==
    LET stored == getSetting(store, CURRENCY_SETTING_KEY)
        legacyStored == getSetting(store, LEGACY_CURRENCY_SETTING_KEY)
        parsedLegacy == parseCurrencyCode(legacyStored)
    IN  IF Truthy(stored)
        THEN [result |-> parseCurrencyCode(stored), store |-> store, readLegacy |-> FALSE]
        ELSE IF Truthy(legacyStored)
        THEN [result |-> parsedLegacy,
              store |-> setSetting(store, CURRENCY_SETTING_KEY, Text(parsedLegacy)),
              readLegacy |-> TRUE]
        ELSE [result |-> EUR, store |-> store, readLegacy |-> TRUE]

\* setCurrencySetting(currencyCode)
setCurrencySetting(store, currencyCode) ==
    setSetting(store, CURRENCY_SETTING_KEY, Text(currencyCode))

GetCurrencySetting ==
    /\ "settings" \in tables
    /\ settings' = getCurrencySetting(settings).store
    /\ lastCall' = [op |-> "getCurrencySetting",
                    result |-> getCurrencySetting(settings).result,
                    readLegacy |-> getCurrencySetting(settings).readLegacy]
    /\ UNCHANGED <<tables, txColumns, custom_categories, transactions, initVars, addVars,
                   recorded, queryVars, dateVars, loadVars, budgetVars,
                   providerVars, screenVars>>

SetCurrencySetting(currencyCode) ==
    /\ "settings" \in tables
    /\ settings' = setCurrencySetting(settings, currencyCode)
    /\ lastCall' = [op |-> "setCurrencySetting", currencyCode |-> currencyCode]
    /\ UNCHANGED <<tables, txColumns, custom_categories, transactions, initVars, addVars,
                   recorded, queryVars, dateVars, loadVars, budgetVars,
                   providerVars, screenVars>>

\* values an earlier version of the app, or a damaged file, can have left
\* under a currency key: a supported code, codes that are not supported, ''
StoredCurrencyTexts ==
    { USD, GBP, <<"J", "P", "Y">>, <<"u", "s", "d">>, <<>> }

\* the settings rows found at start: each currency key absent or holding one
\* of the texts, in either order of insertion
CurrencyStores ==
    LET rowsOf(key) == {<<>>} \cup {<<[key |-> key, value |-> Text(t)]>> :
                                      t \in StoredCurrencyTexts}
    IN  {a \o b : a \in rowsOf(CURRENCY_SETTING_KEY),
                  b \in rowsOf(LEGACY_CURRENCY_SETTING_KEY)}
        \cup {b \o a : a \in rowsOf(CURRENCY_SETTING_KEY),
                       b \in rowsOf(LEGACY_CURRENCY_SETTING_KEY)}

InitCurrency ==
    /\ InitDone(FreshDisk)
    /\ custom_categories = <<>>
    /\ transactions = <<>>
    /\ settings \in CurrencyStores
    /\ IdleScreens /\ NoDates

NextCurrency ==
    \/ GetCurrencySetting
    \/ \E i \in 1..Len(SUPPORTED_CURRENCIES) : SetCurrencySetting(SUPPORTED_CURRENCIES[i])

SpecCurrency == InitCurrency /\ [][NextCurrency]_vars

\* a stored value normalized to a supported currency
AsSupportedCurrency(value) ==
    IF value.kind = "text" /\ value.text \in {EUR, USD, GBP, RUB} THEN value.text ELSE EUR

\* what a getCurrencySetting step must do, given what counts as a value
\* stored under the legacy key and as nothing stored under the canonical key
CurrencyReadRepair(nothingStored(_), valueStored(_)) ==
    lastCall'.op = "getCurrencySetting" =>
        LET canonical == getSetting(settings, CURRENCY_SETTING_KEY)
            legacy == getSetting(settings, LEGACY_CURRENCY_SETTING_KEY)
        IN  /\ lastCall'.result \in {EUR, USD, GBP, RUB}
            /\ (nothingStored(canonical) /\ valueStored(legacy)) =>
                  /\ lastCall'.result = AsSupportedCurrency(legacy)
                  /\ getSetting(settings', CURRENCY_SETTING_KEY) = Text(lastCall'.result)
                  /\ getSetting(settings', LEGACY_CURRENCY_SETTING_KEY) = legacy
            /\ ~nothingStored(canonical) =>
                  /\ ~lastCall'.readLegacy
                  /\ lastCall'.result = AsSupportedCurrency(canonical)
                  /\ settings' = settings
            /\ (nothingStored(canonical) /\ ~valueStored(legacy)) =>
                  lastCall'.result = EUR

IsNull(value) == value.kind = "none"
IsNullOrEmpty(value) == value.kind = "none" \/ (value.kind = "text" /\ value.text = <<>>)
IsNotNull(value) == ~IsNull(value)
IsNotNullOrEmpty(value) == ~IsNullOrEmpty(value)

----------------------------------------------------------------------------
(* Monthly budget setting (src/db/settings.ts).  A JavaScript number is    *)
(* NaN, an infinity, or a finite number counted in tenths (numbers in the  *)
(* model have at most one fractional digit).                               *)

MONTHLY_BUDGET_SETTING_KEY == "monthlyBudget"
BUDGET_MONTH_SETTING_KEY == "budgetMonth"

Finite(tenths) == [kind |-> "finite", tenths |-> tenths]
NaN == [kind |-> "NaN"]
PlusInfinity == [kind |-> "Infinity"]
MinusInfinity == [kind |-> "-Infinity"]
JsNull == [kind |-> "null"]

\* Number.isFinite
isFinite(x) == x.kind = "finite"

\* String(x) of a number
JSString(x) ==
    IF x.kind = "NaN" THEN <<"N", "a", "N">>
    ELSE IF x.kind = "Infinity" THEN <<"I", "n", "f", "i", "n", "i", "t", "y">>
    ELSE IF x.kind = "-Infinity" THEN <<"-", "I", "n", "f", "i", "n", "i", "t", "y">>
    ELSE LET magnitude == IF x.tenths < 0 THEN 0 - x.tenths ELSE x.tenths
             whole == ToDecimal(magnitude \div 10)
             fraction == IF magnitude % 10 = 0 THEN <<>>
                         ELSE <<".", DigitChars[(magnitude % 10) + 1]>>
         IN  (IF x.tenths < 0 THEN <<"-">> ELSE <<>>) \o whole \o fraction

\* the position of the first '.' of a string, 0 when it has none
RECURSIVE FirstDot(_, _)
FirstDot(s, i) ==
    IF i > Len(s) THEN 0 ELSE IF s[i] = "." THEN i ELSE FirstDot(s, i + 1)

AllDigits(s) == \A i \in 1..Len(s) : \E n \in 1..10 : DigitChars[n] = s[i]

RECURSIVE DigitsValue(_)
\* the value of a string of decimal digits ('' counts 0)
DigitsValue(s) ==
    IF s = <<>> THEN 0
    ELSE 10 * DigitsValue(SubSeq(s, 1, Len(s) - 1))
         + (CHOOSE n \in 0..9 : DigitChars[n + 1] = s[Len(s)])

\* Number(text): StringToNumber.  White space is trimmed, '' is 0, a signed
\* decimal literal is its value, Infinity is infinite, anything else is NaN.
JSNumber(text) ==
    LET t == trim(text)
        signed == t # <<>> /\ Head(t) \in {"-", "+"}
        negative == t # <<>> /\ Head(t) = "-"
        body == IF signed THEN Tail(t) ELSE t
        dot == FirstDot(body, 1)
        whole == IF dot = 0 THEN body ELSE SubSeq(body, 1, dot - 1)
        fraction == IF dot = 0 THEN <<>> ELSE SubSeq(body, dot + 1, Len(body))
        magnitude == 10 * DigitsValue(whole) + DigitsValue(fraction)
    IN  IF t = <<>> THEN Finite(0)
        ELSE IF body = <<"I", "n", "f", "i", "n", "i", "t", "y">>
        THEN (IF negative THEN MinusInfinity ELSE PlusInfinity)
        ELSE IF /\ AllDigits(whole) /\ AllDigits(fraction)
                /\ Len(whole) + Len(fraction) > 0
                /\ Len(fraction) <= 1
        THEN Finite(IF negative THEN 0 - magnitude ELSE magnitude)
        ELSE NaN

\* getMonthlyBudgetSetting, given the settings rows
getMonthlyBudgetSetting(store) ==
    LET stored == getSetting(store, MONTHLY_BUDGET_SETTING_KEY)
        parsed == JSNumber(stored.text)
    IN  IF ~Truthy(stored) THEN JsNull
        ELSE IF ~isFinite(parsed) \/ parsed.tenths < 0 THEN JsNull
        ELSE parsed

\* a buggy variant that stores the amount as it is given
setMonthlyBudgetSetting_NoClamp(store, amount) ==
    IF amount = JsNull
    THEN setSetting(store, MONTHLY_BUDGET_SETTING_KEY, Text(<<>>))
    ELSE setSetting(store, MONTHLY_BUDGET_SETTING_KEY, Text(JSString(amount)))

\* setMonthlyBudgetSetting(amount): the settings rows it leaves
setMonthlyBudgetSetting(store, amount) ==
    IF amount = JsNull
    THEN setSetting(store, MONTHLY_BUDGET_SETTING_KEY, Text(<<>>))
    ELSE LET safeAmount == IF isFinite(amount) /\ amount.tenths >= 0 THEN amount
                           ELSE Finite(0)
         IN  setSetting(store, MONTHLY_BUDGET_SETTING_KEY, Text(JSString(safeAmount)))

getBudgetMonthSetting(store) == getSetting(store, BUDGET_MONTH_SETTING_KEY)

setBudgetMonthSetting(store, monthKey) ==
    setSetting(store, BUDGET_MONTH_SETTING_KEY, Text(monthKey))


\* amounts a caller can pass to setMonthlyBudgetSetting
AmountInputs ==
    { JsNull, NaN, PlusInfinity, MinusInfinity,
      Finite(0), Finite(15), Finite(120), Finite(2500), Finite(0 - 50), Finite(0 - 5) }

\* texts a damaged or hand-edited file can hold under the budget key, each
\* with the number JavaScript's Number() makes of it
BudgetTexts ==
    { [text |-> <<>>, number |-> Finite(0)],
      [text |-> <<" ">>, number |-> Finite(0)],
      [text |-> <<"a", "b", "c">>, number |-> NaN],
      [text |-> <<"1", "2", "a">>, number |-> NaN],
      [text |-> <<"1", ".", "2", ".", "3">>, number |-> NaN],
      [text |-> <<"-", "5">>, number |-> Finite(0 - 50)],
      [text |-> <<"I", "n", "f", "i", "n", "i", "t", "y">>, number |-> PlusInfinity],
      [text |-> <<"N", "a", "N">>, number |-> NaN],
      [text |-> <<" ", "4", "2", " ">>, number |-> Finite(420)],
      [text |-> <<"+", "3">>, number |-> Finite(30)],
      [text |-> <<"7", ".", "5">>, number |-> Finite(75)] }

\* month markers a caller can pass to setBudgetMonthSetting
MonthKeyInputs ==
    { <<"2", "0", "2", "4", "-", "1", "2">>, <<"2", "0", "2", "5", "-", "0", "1">> }

GetMonthlyBudgetSetting ==
    /\ "settings" \in tables
    /\ lastCall' = [op |-> "getMonthlyBudgetSetting",
                    result |-> getMonthlyBudgetSetting(settings)]
    /\ UNCHANGED <<dbVars, initVars, addVars, recorded, queryVars, dateVars, loadVars, budgetVars,
                   providerVars, screenVars>>

SetMonthlyBudgetSetting(amount) ==
    /\ "settings" \in tables
    /\ settings' = setMonthlyBudgetSetting(settings, amount)
    /\ lastCall' = [op |-> "setMonthlyBudgetSetting", amount |-> amount]
    /\ UNCHANGED <<tables, txColumns, custom_categories, transactions, initVars, addVars,
                   recorded, queryVars, dateVars, loadVars, budgetVars,
                   providerVars, screenVars>>

GetBudgetMonthSetting ==
    /\ "settings" \in tables
    /\ lastCall' = [op |-> "getBudgetMonthSetting", result |-> getBudgetMonthSetting(settings)]
    /\ UNCHANGED <<dbVars, initVars, addVars, recorded, queryVars, dateVars, loadVars, budgetVars,
                   providerVars, screenVars>>

SetBudgetMonthSetting(monthKey) ==
    /\ "settings" \in tables
    /\ settings' = setBudgetMonthSetting(settings, monthKey)
    /\ lastCall' = [op |-> "setBudgetMonthSetting", monthKey |-> monthKey]
    /\ UNCHANGED <<tables, txColumns, custom_categories, transactions, initVars, addVars,
                   recorded, queryVars, dateVars, loadVars, budgetVars,
                   providerVars, screenVars>>

InitBudget ==
    /\ InitDone(FreshDisk)
    /\ custom_categories = <<>>
    /\ transactions = <<>>
    /\ settings \in {<<>>} \cup {<<[key |-> MONTHLY_BUDGET_SETTING_KEY, value |-> Text(b.text)]>> :
                                  b \in BudgetTexts}
    /\ IdleScreens /\ NoDates

NextBudget ==
    \/ GetMonthlyBudgetSetting
    \/ \E amount \in AmountInputs : SetMonthlyBudgetSetting(amount)
    \/ GetBudgetMonthSetting
    \/ \E monthKey \in MonthKeyInputs : SetBudgetMonthSetting(monthKey)

SpecBudget == InitBudget /\ [][NextBudget]_vars

\* the number the budget table gives for a stored text, NaN for a text that
\* is not in the table
TableNumber(text) ==
    IF \E b \in BudgetTexts : b.text = text
    THEN (CHOOSE b \in BudgetTexts : b.text = text).number
    ELSE NaN

\* C13: setMonthlyBudgetSetting followed by getMonthlyBudgetSetting round-
\* trips: a finite non-negative amount reads back as the same number; a
\* negative or non-finite amount is stored as 0 and reads back as 0; null is
\* stored as '' and reads back as null; and a stored value that does not
\* parse to a finite non-negative number reads back as null.
C13_MonthlyBudgetRoundTrips ==
    [][/\ lastCall'.op = "setMonthlyBudgetSetting" =>
             LET amount == lastCall'.amount
                 stored == getSetting(settings', MONTHLY_BUDGET_SETTING_KEY)
             IN  /\ amount = JsNull => stored = Text(<<>>)
                 /\ (amount.kind \in {"NaN", "Infinity", "-Infinity"}
                     \/ (amount.kind = "finite" /\ amount.tenths < 0)) =>
                        stored = Text(<<"0">>)
       /\ (lastCall'.op = "getMonthlyBudgetSetting" /\ lastCall.op = "setMonthlyBudgetSetting") =>
             LET amount == lastCall.amount
             IN  lastCall'.result =
                    IF amount = JsNull THEN JsNull
                    ELSE IF amount.kind = "finite" /\ amount.tenths >= 0 THEN amount
                    ELSE Finite(0)
       /\ (lastCall'.op = "getMonthlyBudgetSetting"
           /\ \E b \in BudgetTexts :
                 getSetting(settings, MONTHLY_BUDGET_SETTING_KEY) = Text(b.text)) =>
             LET number == TableNumber(getSetting(settings, MONTHLY_BUDGET_SETTING_KEY).text)
             IN  IF number.kind = "finite" /\ number.tenths >= 0
                    /\ getSetting(settings, MONTHLY_BUDGET_SETTING_KEY).text # <<>>
                 THEN lastCall'.result = number
                 ELSE lastCall'.result = JsNull
      ]_vars

\* 1.5 was set and read back as 1.5
C13_Witness ==
    /\ lastCall.op = "getMonthlyBudgetSetting"
    /\ lastCall.result = Finite(15)
    /\ getSetting(settings, MONTHLY_BUDGET_SETTING_KEY) = Text(<<"1", ".", "5">>)

----------------------------------------------------------------------------
(* Budget screen (app/(tabs)/_layout.tsx): loadBudget, handleChangeBudget  *)

MAX_BUDGET_DIGITS == 9

\* getCurrentMonthKey(date): `${year}-${month}` with the month padded
getCurrentMonthKey(date) == ToDecimal(date.y) \o <<"-">> \o padStart2(ToDecimal(date.m + 1))

\* value.replace(/[^0-9]/g, '').slice(0, MAX_BUDGET_DIGITS)
sanitizeBudgetInput(value) ==
    Take(SelectSeq(value, LAMBDA c : \E n \in 1..10 : DigitChars[n] = c), MAX_BUDGET_DIGITS)

\* parseBudgetInput(value)
parseBudgetInput(value) ==
    LET parsed == JSNumber(value)
    IN  IF ~isFinite(parsed) \/ parsed.tenths < 0 THEN JsNull ELSE parsed

\* a buggy variant that never finds the stored marker stale
markerDiffers_Never(savedBudgetMonth, currentMonthKey) == FALSE

\* savedBudgetMonth !== currentMonthKey
markerDiffers(savedBudgetMonth, currentMonthKey) == savedBudgetMonth # Text(currentMonthKey)

\* the catch and finally blocks of loadBudget
LoadBudgetFailed ==
    [budgetScreen EXCEPT !.pc = "done", !.error = "Failed to load budget",
                         !.isLoading = FALSE]

\* loadBudget up to `await getBudgetMonthSetting()`
LoadBudgetStart ==
    /\ budgetScreen.pc \in {"idle", "done"}
    /\ budgetScreen' = [budgetScreen EXCEPT !.pc = "getBudgetMonth", !.error = "",
                                            !.isLoading = TRUE,
                                            !.currentMonthKey = getCurrentMonthKey(today),
                                            !.now = today]
    /\ UNCHANGED <<dbVars, initVars, addVars, recorded, queryVars, dateVars, loadVars,
                   lastCall, today, budgetWrites, unhandledRejections, providerVars, screenVars>>

\* getBudgetMonthSetting settles; the marker is compared with the current month
LoadBudgetReadMonth ==
    /\ budgetScreen.pc = "getBudgetMonth"
    /\ \E ok \in BOOLEAN :
          budgetScreen' =
             IF ~ok \/ "settings" \notin tables THEN LoadBudgetFailed
             ELSE [budgetScreen EXCEPT
                      !.savedBudgetMonth = getBudgetMonthSetting(settings),
                      !.pc = IF markerDiffers(getBudgetMonthSetting(settings),
                                              budgetScreen.currentMonthKey)
                             THEN "setBudgetMonth" ELSE "loadData"]
    /\ UNCHANGED <<dbVars, initVars, addVars, recorded, queryVars, dateVars, loadVars,
                   lastCall, today, budgetWrites, unhandledRejections, providerVars, screenVars>>

\* setBudgetMonthSetting(currentMonthKey) settles
LoadBudgetWriteMonth ==
    /\ budgetScreen.pc = "setBudgetMonth"
    /\ \E ok \in BOOLEAN :
          IF ok
          THEN /\ settings' = setBudgetMonthSetting(settings, budgetScreen.currentMonthKey)
               /\ budgetScreen' = [budgetScreen EXCEPT !.pc = "loadData"]
          ELSE /\ settings' = settings
               /\ budgetScreen' = LoadBudgetFailed
    /\ UNCHANGED <<tables, txColumns, custom_categories, transactions, initVars, addVars,
                   recorded, queryVars, dateVars, loadVars, lastCall, today, budgetWrites,
                   unhandledRejections, providerVars, screenVars>>

\* Promise.all([getMonthlyBudgetSetting, getTotal, getTopSpendingDays])
\* settles and the screen state is set
LoadBudgetReadData ==
    /\ budgetScreen.pc = "loadData"
    /\ \E ok \in BOOLEAN :
          IF ~ok
          THEN budgetScreen' = LoadBudgetFailed
          ELSE LET range == getMonthRange(budgetScreen.now)
                   savedBudget == getMonthlyBudgetSetting(settings)
                   spent == getTotal(transactions, range.fromISO, range.toISO)
                   normalizedBudget == IF savedBudget = JsNull THEN <<>>
                                       ELSE sanitizeBudgetInput(JSString(savedBudget))
               IN  \E topDays \in getTopSpendingDays(transactions, range.fromISO,
                                                     range.toISO, 10) :
                      budgetScreen' = [budgetScreen EXCEPT
                                          !.pc = "done",
                                          !.monthKey = budgetScreen.currentMonthKey,
                                          !.monthlyBudget = parseBudgetInput(normalizedBudget),
                                          !.rawBudget = normalizedBudget,
                                          !.spentThisMonth = spent,
                                          !.topSpendingDays = topDays,
                                          !.isLoading = FALSE]
    /\ UNCHANGED <<dbVars, initVars, addVars, recorded, queryVars, dateVars, loadVars,
                   lastCall, today, budgetWrites, unhandledRejections, providerVars, screenVars>>

\* texts the budget field can be changed to
BudgetFieldInputs == { <<>>, <<"1", "2">>, <<"3", "a", "0">> }

\* handleChangeBudget(value): the state is set and the write is started
\* without being awaited (`void setMonthlyBudgetSetting(...)`)
HandleChangeBudget(value) ==
    /\ budgetScreen.edits < MaxEdits
    /\ LET sanitizedValue == sanitizeBudgetInput(value)
           parsed == parseBudgetInput(sanitizedValue)
       IN  IF sanitizedValue = <<>>
           THEN /\ budgetScreen' = [budgetScreen EXCEPT !.rawBudget = sanitizedValue,
                                                        !.monthlyBudget = JsNull,
                                                        !.edits = @ + 1]
                /\ budgetWrites' = Append(budgetWrites, JsNull)
           ELSE IF parsed = JsNull
           THEN /\ budgetScreen' = [budgetScreen EXCEPT !.rawBudget = sanitizedValue,
                                                        !.edits = @ + 1]
                /\ budgetWrites' = budgetWrites
           ELSE /\ budgetScreen' = [budgetScreen EXCEPT !.rawBudget = sanitizedValue,
                                                        !.monthlyBudget = parsed,
                                                        !.edits = @ + 1]
                /\ budgetWrites' = Append(budgetWrites, parsed)
    /\ UNCHANGED <<dbVars, initVars, addVars, recorded, queryVars, dateVars, loadVars,
                   lastCall, today, unhandledRejections, providerVars, screenVars>>

\* the oldest setMonthlyBudgetSetting call started by handleChangeBudget
\* settles: the row is written, or the promise rejects with nobody to catch it
BudgetWriteSettles ==
    /\ budgetWrites # <<>>
    /\ budgetWrites' = Tail(budgetWrites)
    /\ \E ok \in BOOLEAN :
          IF ok /\ "settings" \in tables
          THEN /\ settings' = setMonthlyBudgetSetting(settings, Head(budgetWrites))
               /\ unhandledRejections' = unhandledRejections
          ELSE /\ settings' = settings
               /\ unhandledRejections' = unhandledRejections + 1
    /\ UNCHANGED <<tables, txColumns, custom_categories, transactions, initVars, addVars,
                   recorded, queryVars, dateVars, loadVars, lastCall, today, budgetScreen,
                   providerVars, screenVars>>

\* the calendar month changes
MonthTick ==
    /\ (today.y * 12 + today.m) - (2024 * 12 + 10) < MaxMonthTicks
    /\ today' = NewDate(today.y, today.m + 1, 1)
    /\ UNCHANGED <<dbVars, initVars, addVars, recorded, queryVars, dateVars, loadVars,
                   lastCall, budgetScreen, budgetWrites, unhandledRejections, providerVars, screenVars>>

\* settings rows found when the screen is first opened: no marker, the marker
\* of an earlier month or of this month; no budget, a budget, a damaged one
BudgetScreenStores ==
    LET markers == {<<>>} \cup
                   {<<[key |-> BUDGET_MONTH_SETTING_KEY, value |-> Text(k)]>> :
                      k \in { getCurrentMonthKey([y |-> 2024, m |-> 9, d |-> 1, h |-> 0]),
                              getCurrentMonthKey([y |-> 2024, m |-> 10, d |-> 1, h |-> 0]) }}
        budgets == {<<>>} \cup
                   {<<[key |-> MONTHLY_BUDGET_SETTING_KEY, value |-> Text(t)]>> :
                      t \in { <<"1", "2", "0">>, <<"a", "b", "c">> }}
    IN  {a \o b : a \in markers, b \in budgets}

InitBudgetScreen ==
    /\ InitDone(FreshDisk)
    /\ custom_categories = <<>>
    /\ transactions = <<>>
    /\ settings \in BudgetScreenStores
    /\ IdleScreens /\ NoDates

NextBudgetScreen ==
    \/ LoadBudgetStart
    \/ LoadBudgetReadMonth
    \/ LoadBudgetWriteMonth
    \/ LoadBudgetReadData
    \/ \E value \in BudgetFieldInputs : HandleChangeBudget(value)
    \/ BudgetWriteSettles
    \/ MonthTick

SpecBudgetScreen == InitBudgetScreen /\ [][NextBudgetScreen]_vars

\* the text is the YYYY-MM of the Date
IsMonthKeyOf(text, date) ==
    /\ Len(text) = 7
    /\ text[5] = "-"
    /\ AllDigits(SubSeq(text, 1, 4)) /\ AllDigits(SubSeq(text, 6, 7))
    /\ DigitsValue(SubSeq(text, 1, 4)) = date.y
    /\ DigitsValue(SubSeq(text, 6, 7)) = date.m + 1

----------------------------------------------------------------------------
(* The settings store by itself: getSetting and setSetting on any key      *)

SettingKeyInputs ==
    {CURRENCY_SETTING_KEY, MONTHLY_BUDGET_SETTING_KEY, RECENT_CATEGORIES_SETTING_KEY}

SettingValueInputs == {Text(<<>>), Text(USD), Text(<<"1", "2">>)}

GetSetting(key) ==
    /\ "settings" \in tables
    /\ lastCall' = [op |-> "getSetting", key |-> key, result |-> getSetting(settings, key)]
    /\ UNCHANGED <<dbVars, initVars, addVars, recorded, queryVars, dateVars, loadVars,
                   budgetVars, providerVars, screenVars>>

SetSetting(key, value) ==
    /\ "settings" \in tables
    /\ settings' = setSetting(settings, key, value)
    /\ lastCall' = [op |-> "setSetting", key |-> key, value |-> value]
    /\ UNCHANGED <<tables, txColumns, custom_categories, transactions, initVars, addVars,
                   recorded, queryVars, dateVars, loadVars, budgetVars,
                   providerVars, screenVars>>

InitSettings ==
    /\ InitDone(FreshDisk)
    /\ EmptyStore /\ IdleScreens /\ NoDates

NextSettings ==
    \/ \E key \in SettingKeyInputs : GetSetting(key)
    \/ \E key \in SettingKeyInputs, value \in SettingValueInputs : SetSetting(key, value)

SpecSettings == InitSettings /\ [][NextSettings]_vars

\* the values the rows of a key hold
ValuesOfKey(store, key) == {store[i].value : i \in {j \in 1..Len(store) : store[j].key = key}}

\* C15: the settings store holds at most one row per key; a setSetting(k, v)
\* leaves v as the value of k and every other key as it was; getSetting(k)
\* changes nothing and returns the value of k, null when k holds none (so it
\* returns the value of the last setSetting(k, v), or null if k was never set).
C15_SettingsUpsert ==
    /\ [](\A i, j \in 1..Len(settings) : settings[i].key = settings[j].key => i = j)
    /\ [](lastCall.op = "none" => settings = <<>>)
    /\ [][/\ lastCall'.op = "setSetting" =>
               /\ ValuesOfKey(settings', lastCall'.key) = {lastCall'.value}
               /\ \A key \in SettingKeyInputs \ {lastCall'.key} :
                     ValuesOfKey(settings', key) = ValuesOfKey(settings, key)
          /\ lastCall'.op = "getSetting" =>
               /\ settings' = settings
               /\ IF ValuesOfKey(settings, lastCall'.key) = {}
                  THEN lastCall'.result = Null
                  ELSE ValuesOfKey(settings, lastCall'.key) = {lastCall'.result}
         ]_vars

\* two keys have been set; the value of the first is read back
C15_Witness ==
    /\ lastCall = [op |-> "getSetting", key |-> CURRENCY_SETTING_KEY, result |-> Text(USD)]
    /\ settings = << [key |-> CURRENCY_SETTING_KEY, value |-> Text(USD)],
                     [key |-> MONTHLY_BUDGET_SETTING_KEY, value |-> Text(<<"1", "2">>)] >>

----------------------------------------------------------------------------
(* CurrencyProvider (src/providers/CurrencyProvider.tsx): the mount        *)
(* effect's getCurrencySetting and setCurrencyCode                         *)

OtherVarsOfProvider ==
    <<tables, txColumns, custom_categories, transactions, initVars, addVars, recorded,
      queryVars, dateVars, loadVars, budgetVars, screenVars>>

\* the catch block of the mount effect: setCurrencyCodeState('EUR')
MountFailed == [provider EXCEPT !.currencyCode = EUR, !.mountPc = "failed"]

\* mount effect: getSetting(CURRENCY_SETTING_KEY) settles
MountReadCurrency ==
    /\ provider.mountPc = "getCurrency"
    /\ \E ok \in BOOLEAN :
          LET stored == getSetting(settings, CURRENCY_SETTING_KEY)
          IN  provider' =
                 IF ~ok \/ "settings" \notin tables THEN MountFailed
                 ELSE IF Truthy(stored)
                 THEN [provider EXCEPT !.currencyCode = parseCurrencyCode(stored),
                                       !.mountPc = "done"]
                 ELSE [provider EXCEPT !.mountPc = "getLegacy"]
    /\ UNCHANGED <<OtherVarsOfProvider, settings, lastCall, currencyWrites>>

\* mount effect: getSetting(LEGACY_CURRENCY_SETTING_KEY) settles
MountReadLegacy ==
    /\ provider.mountPc = "getLegacy"
    /\ \E ok \in BOOLEAN :
          LET legacyStored == getSetting(settings, LEGACY_CURRENCY_SETTING_KEY)
          IN  provider' =
                 IF ~ok THEN MountFailed
                 ELSE IF Truthy(legacyStored)
                 THEN [provider EXCEPT !.parsedLegacy = parseCurrencyCode(legacyStored),
                                       !.mountPc = "repair"]
                 ELSE [provider EXCEPT !.currencyCode = EUR, !.mountPc = "done"]
    /\ UNCHANGED <<OtherVarsOfProvider, settings, lastCall, currencyWrites>>

\* mount effect: setSetting(CURRENCY_SETTING_KEY, parsedLegacy) settles and
\* getCurrencySetting returns parsedLegacy
MountRepair ==
    /\ provider.mountPc = "repair"
    /\ \E ok \in BOOLEAN :
          IF ok
          THEN /\ settings' = setSetting(settings, CURRENCY_SETTING_KEY,
                                         Text(provider.parsedLegacy))
               /\ provider' = [provider EXCEPT !.currencyCode = provider.parsedLegacy,
                                               !.mountPc = "done"]
          ELSE /\ settings' = settings
               /\ provider' = MountFailed
    /\ UNCHANGED <<OtherVarsOfProvider, lastCall, currencyWrites>>

\* setCurrencyCode(nextCurrency) up to `await setCurrencySetting(nextCurrency)`
SetCurrencyCode(nextCurrency) ==
    /\ provider.selections < MaxSelections
    /\ provider' = [provider EXCEPT !.currencyCode = nextCurrency, !.selections = @ + 1]
    /\ currencyWrites' = Append(currencyWrites, nextCurrency)
    /\ lastCall' = [op |-> "setCurrencyCode", nextCurrency |-> nextCurrency,
                    write |-> "pending", threw |-> FALSE]
    /\ UNCHANGED <<OtherVarsOfProvider, settings>>

\* the oldest setCurrencySetting call started by setCurrencyCode settles; a
\* rejection is caught and dropped, and setCurrencyCode's promise resolves
CurrencyWriteSettles ==
    /\ currencyWrites # <<>>
    /\ currencyWrites' = Tail(currencyWrites)
    /\ \E ok \in BOOLEAN :
          /\ settings' = IF ok /\ "settings" \in tables
                         THEN setCurrencySetting(settings, Head(currencyWrites))
                         ELSE settings
          /\ lastCall' = IF Len(currencyWrites) = 1
                         THEN [lastCall EXCEPT !.write = IF ok /\ "settings" \in tables
                                                         THEN "written" ELSE "failed"]
                         ELSE lastCall
    /\ UNCHANGED <<OtherVarsOfProvider, provider>>

\* settings rows found at start: nothing, a currency chosen earlier, or only
\* the legacy key of an earlier version
ProviderStores ==
    { <<>>,
      <<[key |-> CURRENCY_SETTING_KEY, value |-> Text(GBP)]>>,
      <<[key |-> LEGACY_CURRENCY_SETTING_KEY, value |-> Text(RUB)]>> }

InitProvider ==
    /\ InitDone(FreshDisk)
    /\ custom_categories = <<>>
    /\ transactions = <<>>
    /\ settings \in ProviderStores
    /\ IdleScreens /\ NoDates

NextProvider ==
    \/ MountReadCurrency
    \/ MountReadLegacy
    \/ MountRepair
    \/ \E nextCurrency \in {USD, GBP} : SetCurrencyCode(nextCurrency)
    \/ CurrencyWriteSettles

SpecProvider == InitProvider /\ [][NextProvider]_vars

\* C16: when setCurrencyCode(c) has been called and its persistence write
\* has failed, the in-memory currency is c (it stays c until setCurrencyCode
\* is called again) and the failure has not propagated to the caller.
C16_FailedWriteKeepsSelection ==
    (lastCall.op = "setCurrencyCode" /\ lastCall.write = "failed") =>
        /\ provider.currencyCode = lastCall.nextCurrency
        /\ ~lastCall.threw

----------------------------------------------------------------------------
(* Claim about failures of the storage calls a screen issues, under        *)
(* SpecBudgetScreen.                                                       *)

\* C17: a failure of a storage call issued by a screen is caught where the
\* call is made; in particular a failed write of the monthly budget started
\* by editing the budget field does not end as an unhandled rejection.
C17_StorageFailuresAreCaught == unhandledRejections = 0

----------------------------------------------------------------------------
(* A corrupt recent-categories value (src/db/categories.ts)                *)

MaxRepairs == 3

\* texts under recentCategoriesJson that JSON.stringify of a list never
\* wrote: '', texts that are not JSON, and JSON values that are not arrays
CorruptRecentTexts ==
    { <<>>,
      <<"o", "o", "p", "s">>,
      <<"[", "\"", "a", "\"">>,
      <<"n", "u", "l", "l">>,
      <<"1", "2">>,
      <<"{", "}">>,
      <<"\"", "a", "b", "\"">> }

RecentStores ==
    {<<[key |-> RECENT_CATEGORIES_SETTING_KEY, value |-> Text(t)]>> : t \in CorruptRecentTexts}
        \cup {<<[key |-> RECENT_CATEGORIES_SETTING_KEY,
                 value |-> JSONStringify(<<<<"T", "a", "x", "i">>>>)]>>}

\* getRecentCategories(), one call run to completion
GetRecentCategories ==
    /\ lastCall' = [op |-> "getRecentCategories",
                    result |-> getRecentCategories(
                                   getSetting(settings, RECENT_CATEGORIES_SETTING_KEY)),
                    threw |-> FALSE]
    /\ UNCHANGED <<dbVars, initVars, addVars, recorded, queryVars, dateVars,
                   loadVars, budgetVars, providerVars, screenVars>>

\* recordRecentCategory(name) on a store that started with such a value
RecordAfterCorruption(name) ==
    /\ Len(recorded) < MaxRepairs
    /\ RecordRecentCategory(name)

InitRecentRepair ==
    /\ InitDone(FreshDisk)
    /\ custom_categories = <<>> /\ transactions = <<>>
    /\ settings \in RecentStores
    /\ IdleScreens /\ NoDates

NextRecentRepair ==
    \/ GetRecentCategories
    \/ \E name \in RecentInputs : RecordAfterCorruption(name)

SpecRecentRepair == InitRecentRepair /\ [][NextRecentRepair]_vars

\* the stored value is not the text of a JSON array
IsCorruptRecent(stored) == stored.kind = "text"

\* C18: while the stored recent-categories value is not valid JSON or not a
\* JSON array, getRecentCategories returns the empty list without raising,
\* and a recordRecentCategory(name) with a non-empty name replaces the value
\* with the list holding only the normalized name.
C18_CorruptRecentValueIsReplaced ==
    [][IsCorruptRecent(getSetting(settings, RECENT_CATEGORIES_SETTING_KEY)) =>
          /\ lastCall' # lastCall =>
                 /\ lastCall'.op = "getRecentCategories"
                 /\ lastCall'.result = <<>> /\ ~lastCall'.threw
                 /\ settings' = settings
          /\ recorded' # recorded =>
                 getSetting(settings', RECENT_CATEGORIES_SETTING_KEY)
                     = JSONStringify(<<NormalForm(recorded'[Len(recorded')])>>)]_vars

\* a read of a corrupt value gave the empty list, and the one call of
\* recordRecentCategory(' cafe\t') since left the list ['cafe'] in its place
C18_Witness ==
    /\ lastCall.op = "getRecentCategories" /\ lastCall.result = <<>>
    /\ recorded = <<<<" ", "c", "a", "f", "e", "\t">>>>
    /\ getSetting(settings, RECENT_CATEGORIES_SETTING_KEY)
           = JSONStringify(<<<<"c", "a", "f", "e">>>>)

----------------------------------------------------------------------------
(* Deleting a custom category (src/db/categories.ts)                       *)

\* stored names: two that differ only in letter case, and two others
StoredNames ==
    { <<"P", "e", "t", "s">>, <<"p", "e", "t", "s">>, <<"t", "a", "x", "i">>,
      <<"M", "y", " ", "S", "h", "o", "p">> }

\* the custom_categories rows found by a call, oldest first
StoredCustomLists ==
    {<<>>} \cup {<<a>> : a \in StoredNames}
           \cup {<<a, b>> : a \in StoredNames, b \in StoredNames}

InitDelete ==
    /\ \E d \in DiskStates : InitDone(d)
    /\ custom_categories \in StoredCustomLists
    /\ "custom_categories" \notin tables => custom_categories = <<>>
    /\ settings \in {<<>>, <<[key |-> RECENT_CATEGORIES_SETTING_KEY,
                             value |-> JSONStringify(<<<<"P", "e", "t", "s">>>>)]>>}
    /\ transactions = <<>>
    /\ IdleScreens /\ NoDates

NextDelete == \E name \in CategoryInputs : DeleteCustomCategory(name)

SpecDelete == InitDelete /\ [][NextDelete]_vars

\* the rows of a list that differ from a name, in their order
RECURSIVE RowsOtherThan(_, _)
RowsOtherThan(rows, name) ==
    IF rows = <<>> THEN <<>>
    ELSE (IF rows[1] = name THEN <<>> ELSE <<rows[1]>>) \o RowsOtherThan(Tail(rows), name)

\* C19: deleteCustomCategory(name) removes exactly the stored custom
\* categories equal to the normalized name character for character, keeps
\* every other one (a name differing only in letter case included) and the
\* recent list, and changes nothing when the normalized name is empty.
C19_DeleteRemovesExactMatches ==
    [][lastCall' # lastCall \/ custom_categories' # custom_categories =>
          LET n == NormalForm(lastCall'.name)
          IN  /\ lastCall'.op = "deleteCustomCategory"
              /\ custom_categories' = RowsOtherThan(custom_categories, n)
              /\ \A i \in 1..Len(custom_categories) :
                    (custom_categories[i] # n /\ EqualIgnoringCase(custom_categories[i], n))
                        => \E j \in 1..Len(custom_categories') :
                              custom_categories'[j] = custom_categories[i]
              /\ settings' = settings
              /\ n = <<>> => custom_categories' = custom_categories]_vars

\* deleteCustomCategory('pets ') ran on 'Pets', 'pets': only 'Pets' is left,
\* and the recent list still names 'Pets'
C19_Witness ==
    /\ lastCall = [op |-> "deleteCustomCategory", name |-> <<"p", "e", "t", "s", " ">>,
                   threw |-> FALSE]
    /\ custom_categories = <<<<"P", "e", "t", "s">>>>
    /\ getRecentCategories(getSetting(settings, RECENT_CATEGORIES_SETTING_KEY))
           = <<<<"P", "e", "t", "s">>>>

----------------------------------------------------------------------------
(* The tables after initialization (src/db/schema.ts)                      *)

\* C20: starting from a fresh database, once a caller's initDatabaseAsync
\* has completed successfully the tables transactions, settings and
\* custom_categories all exist.
C20_FreshInstallHasAllTables ==
    (tablesAtStart = FreshDisk.tables /\ \E c \in Callers : callerPc[c].at = "resumed")
        => {"transactions", "settings", "custom_categories"} \subseteq tables

----------------------------------------------------------------------------
(* Saving and reading transactions (src/db/transactions.ts)                *)

\* a property the caller left out of the object
Undefined == [kind |-> "undefined"]

\* obj.name: undefined when the object has no such property
Prop(obj, name) == IF name \in DOMAIN obj THEN obj[name] ELSE Undefined

\* value ?? null
NullIfMissing(value) == IF value.kind \in {"undefined", "none"} THEN Null ELSE value

\* what handleSave can pass: optional itemName, note and attachmentUri
SaveInputs ==
    { [amount |-> 10, category |-> Cafe, date |-> <<"2", "0", "2", "4", "-", "0", "3", "-", "0", "1">>,
       itemName |-> Text(<<"t", "e", "a">>)],
      [amount |-> 20, category |-> Taxi, date |-> <<"2", "0", "2", "4", "-", "0", "3", "-", "0", "1">>,
       note |-> Text(<<"l", "a", "t", "e">>)],
      [amount |-> 5, category |-> Cafe, date |-> <<"2", "0", "2", "4", "-", "0", "3", "-", "3", "1">>,
       itemName |-> Text(<<"p", "i", "e">>), note |-> Text(<<"o", "k">>),
       attachmentUri |-> Text(<<"f", "i", "l", "e", ":", "a">>)] }

\* the row INSERT INTO transactions (id, amount, category, item, note, date,
\* createdAt) writes: attachmentUri is not among the columns and stays NULL
InsertedRow(transaction, createdAt) ==
    [id |-> transaction.id,
     amount |-> transaction.amount,
     category |-> transaction.category,
     item |-> NullIfMissing(Prop(transaction, "itemName")),
     note |-> NullIfMissing(Prop(transaction, "note")),
     attachmentUri |-> Null,
     date |-> transaction.date,
     createdAt |-> createdAt]

\* mapRow: item and note are copied only when truthy
mapRow(row) ==
    LET base == [id |-> row.id, amount |-> row.amount, category |-> row.category,
                 date |-> row.date, createdAt |-> row.createdAt]
        withItem == IF Truthy(row.item) THEN [itemName |-> row.item] ELSE <<>>
        withNote == IF Truthy(row.note) THEN [note |-> row.note] ELSE <<>>
    IN  base @@ withItem @@ withNote

\* new Date(`${dateISO}T00:00:00`) for a text of the form YYYY-MM-DD
DateOfISO(dateISO) ==
    NewDate(DigitsValue(SubSeq(dateISO, 1, 4)),
            DigitsValue(SubSeq(dateISO, 6, 7)) - 1,
            DigitsValue(SubSeq(dateISO, 9, 10)))

\* addOneDayISO
addOneDayISO(dateISO) == formatISODate(addDays(DateOfISO(dateISO), 1))

\* ORDER BY createdAt DESC: every order of the rows in which createdAt does
\* not increase (rows written in the same millisecond come in either order)
RECURSIVE OrderedByCreatedAtDesc(_)
OrderedByCreatedAtDesc(rowSet) ==
    IF rowSet = {} THEN {<<>>}
    ELSE UNION { {<<first>> \o rest : rest \in OrderedByCreatedAtDesc(rowSet \ {first})} :
                 first \in {r \in rowSet : \A other \in rowSet : other.createdAt <= r.createdAt} }

MapRows(rows) == [i \in 1..Len(rows) |-> mapRow(rows[i])]

\* the results getAllTransactions() can return
getAllTransactions(rows) ==
    {MapRows(ordered) : ordered \in OrderedByCreatedAtDesc({rows[i] : i \in 1..Len(rows)})}

\* the results getTransactionsByDate(dateISO, limit) can return
getTransactionsByDate(rows, dateISO, limit) ==
    LET toISO == addOneDayISO(dateISO)
        selected == {rows[i] : i \in {j \in 1..Len(rows) :
                        StrLeq(dateISO, rows[j].date) /\ StrLess(rows[j].date, toISO)}}
    IN  {MapRows(Take(ordered, limit)) : ordered \in OrderedByCreatedAtDesc(selected)}

DEFAULT_BY_DATE_LIMIT == 10

\* the millisecond clock read by new Date().toISOString()
ClockOf(rows) == IF rows = <<>> THEN 0 ELSE rows[Len(rows)].createdAt

\* addTransaction(transaction), one call run to completion; handleSave's ids
\* (time and six random characters) are taken to be fresh
SaveTransaction(input) ==
    /\ Len(transactions) < MaxTx
    /\ "transactions" \in tables
    /\ \E elapsed \in {0, 1} :
          LET transaction == [id |-> Len(transactions) + 1] @@ input
          IN  /\ transactions' = Append(transactions,
                                    InsertedRow(transaction, ClockOf(transactions) + elapsed))
              /\ lastCall' = [op |-> "addTransaction", transaction |-> transaction]
    /\ UNCHANGED <<loadVars, budgetVars, providerVars, screenVars, tables, txColumns, custom_categories,
                   settings, initVars, addVars, recorded, queryVars, dateVars>>

\* getAllTransactions(), one call run to completion
GetAllTransactions ==
    /\ "transactions" \in tables
    /\ \E result \in getAllTransactions(transactions) :
          lastCall' = [op |-> "getAllTransactions", result |-> result]
    /\ UNCHANGED <<loadVars, budgetVars, providerVars, screenVars, dbVars, initVars, addVars, recorded,
                   queryVars, dateVars>>

\* getTransactionsByDate(dateISO), one call run to completion
GetTransactionsByDate(dateISO) ==
    /\ "transactions" \in tables
    /\ \E result \in getTransactionsByDate(transactions, dateISO, DEFAULT_BY_DATE_LIMIT) :
          lastCall' = [op |-> "getTransactionsByDate", dateISO |-> dateISO,
                       result |-> result]
    /\ UNCHANGED <<loadVars, budgetVars, providerVars, screenVars, dbVars, initVars, addVars, recorded,
                   queryVars, dateVars>>

\* dates the home screen asks for
ByDateInputs ==
    { <<"2", "0", "2", "4", "-", "0", "3", "-", "0", "1">>,
      <<"2", "0", "2", "4", "-", "0", "3", "-", "3", "1">> }

InitTransactions ==
    /\ InitDone(FreshDisk)
    /\ EmptyStore /\ IdleScreens /\ NoDates

NextTransactions ==
    \/ \E input \in SaveInputs : SaveTransaction(input)
    \/ GetAllTransactions
    \/ \E dateISO \in ByDateInputs : GetTransactionsByDate(dateISO)

SpecTransactions == InitTransactions /\ [][NextTransactions]_vars

\* the fields of a saved transaction that a read is to give back
SavedFields == {"id", "amount", "category", "itemName", "note", "date", "attachmentUri"}

SameAsSaved(read, saved) == \A name \in SavedFields : Prop(read, name) = Prop(saved, name)

\* C21: a transaction saved through addTransaction reads back from
\* getAllTransactions, and from getTransactionsByDate of its date, with the
\* id, amount, category, item name, note, date and attachment URI passed in.
C21_SavedTransactionReadsBack ==
    [][(/\ lastCall.op = "addTransaction"
        /\ \/ lastCall'.op = "getAllTransactions"
           \/ /\ lastCall'.op = "getTransactionsByDate"
              /\ lastCall'.dateISO = lastCall.transaction.date)
          => \E i \in 1..Len(lastCall'.result) :
                SameAsSaved(lastCall'.result[i], lastCall.transaction)]_vars

\* the same for every field but the attachment URI
SavedWithoutAttachmentReadsBack ==
    [][(/\ lastCall.op = "addTransaction"
        /\ \/ lastCall'.op = "getAllTransactions"
           \/ /\ lastCall'.op = "getTransactionsByDate"
              /\ lastCall'.dateISO = lastCall.transaction.date)
          => \E i \in 1..Len(lastCall'.result) :
                \A name \in SavedFields \ {"attachmentUri"} :
                    Prop(lastCall'.result[i], name) = Prop(lastCall.transaction, name)]_vars

----------------------------------------------------------------------------
(* The top spending days (src/db/analytics.ts)                             *)

\* limits passed to getTopSpendingDays
LimitInputs == {0, 1, 2}

\* ranges asked for: March 2024, and March to December 2024
TopDaysRanges ==
    { [fromISO |-> formatISODate([y |-> 2024, m |-> 2, d |-> 1, h |-> 0]),
       toISO |-> formatISODate([y |-> 2024, m |-> 3, d |-> 1, h |-> 0])],
      [fromISO |-> formatISODate([y |-> 2024, m |-> 2, d |-> 1, h |-> 0]),
       toISO |-> formatISODate([y |-> 2025, m |-> 0, d |-> 1, h |-> 0])] }

\* the expenses saved here: those of 1 March, 31 March and 31 December 2024
TopDaysTxInputs == {input \in TxInputs : input.expenseDate.y = 2024 /\ input.expenseDate.m # 3}

\* getTopSpendingDays(fromISO, toISO, limit), one call run to completion
GetTopSpendingDays(fromISO, toISO, limit) ==
    /\ "transactions" \in tables
    /\ \E result \in getTopSpendingDays(transactions, fromISO, toISO, limit) :
          lastCall' = [op |-> "getTopSpendingDays", fromISO |-> fromISO, toISO |-> toISO,
                       limit |-> limit, result |-> result]
    /\ UNCHANGED <<loadVars, budgetVars, providerVars, screenVars, dbVars, initVars, addVars, recorded,
                   queryVars, dateVars>>

\* getTopSpendingDays(fromISO, toISO): limit = 10
GetTopSpendingDaysDefault(fromISO, toISO) ==
    GetTopSpendingDays(fromISO, toISO, DEFAULT_TOP_DAYS_LIMIT)

InitTopDays ==
    /\ InitDone(FreshDisk)
    /\ EmptyStore /\ IdleScreens /\ NoDates

NextTopDays ==
    \/ \E input \in TopDaysTxInputs : AddTransaction(input)
    \/ \E range \in TopDaysRanges, limit \in LimitInputs :
          GetTopSpendingDays(range.fromISO, range.toISO, limit)
    \/ \E range \in TopDaysRanges : GetTopSpendingDaysDefault(range.fromISO, range.toISO)

SpecTopDays == InitTopDays /\ [][NextTopDays]_vars

\* the total of the stored transactions of a range dated on one day
DayTotal(fromISO, toISO, date) ==
    SumOver({i \in StoredWithin(fromISO, toISO) : transactions[i].date = date})

\* C22: getTopSpendingDays(from, to, limit) returns at most limit entries (at
\* most 10 when limit is omitted), each date at most once, each total the sum
\* of that day's amounts in the range, totals in descending order, and no day
\* of the range left out has a larger total than a day returned.
C22_TopSpendingDays ==
    [][(lastCall' # lastCall /\ lastCall'.op = "getTopSpendingDays") =>
          LET call == lastCall'
              result == call.result
              days == {transactions[i].date : i \in StoredWithin(call.fromISO, call.toISO)}
              returned == {result[i].date : i \in 1..Len(result)}
          IN  /\ Len(result) <= call.limit
              /\ call.limit \in LimitInputs \cup {10}
              /\ \A i, j \in 1..Len(result) : i # j => result[i].date # result[j].date
              /\ returned \subseteq days
              /\ \A i \in 1..Len(result) :
                    result[i].total = DayTotal(call.fromISO, call.toISO, result[i].date)
              /\ \A i \in 1..(Len(result) - 1) : result[i].total >= result[i + 1].total
              /\ \A day \in days \ returned : \A i \in 1..Len(result) :
                    DayTotal(call.fromISO, call.toISO, day) <= result[i].total]_vars

\* three days of the range have transactions and a call with limit 2 returned
\* the two with the larger totals, 80 before 20
C22_Witness ==
    /\ lastCall.op = "getTopSpendingDays" /\ lastCall.limit = 2
    /\ Len(transactions) = 3
    /\ Cardinality({transactions[i].date :
                       i \in StoredWithin(lastCall.fromISO, lastCall.toISO)}) = 3
    /\ Len(lastCall.result) = 2
    /\ lastCall.result[1].total = 80 /\ lastCall.result[2].total = 20

----------------------------------------------------------------------------
(* Compact money format (app/(tabs)/budget.tsx, src/utils/money.ts)        *)

\* a finite amount: sign, whole units and hundredths
Money(neg, units, cents) == [kind |-> "finite", neg |-> neg, units |-> units, cents |-> cents]

CURRENCY_SYMBOLS == [code \in SeqToSet(SUPPORTED_CURRENCIES) |->
                        IF code = EUR THEN "€" ELSE IF code = USD THEN "$"
                        ELSE IF code = GBP THEN "£" ELSE "₽"]

getCurrencySymbol(code) == CURRENCY_SYMBOLS[code]

\* the digits of a whole number in groups of three: 1,234,567
RECURSIVE GroupThousands(_)
GroupThousands(n) ==
    IF n < 1000 THEN ToDecimal(n)
    ELSE GroupThousands(n \div 1000) \o <<",">>
            \o <<DigitChars[((n \div 100) % 10) + 1], DigitChars[((n \div 10) % 10) + 1],
                 DigitChars[(n % 10) + 1]>>

\* toLocaleString('en-US', {minimumFractionDigits: 2, maximumFractionDigits: 2})
toLocaleString2(amount) ==
    (IF amount.neg /\ (amount.units > 0 \/ amount.cents > 0) THEN <<"-">> ELSE <<>>)
        \o GroupThousands(amount.units) \o <<".">> \o padStart2(ToDecimal(amount.cents))

\* formatMoney
formatMoney(amount, currencyCode) ==
    LET normalizedAmount == IF isFinite(amount) THEN amount ELSE Money(FALSE, 0, 0)
        safeCode == toCurrencyCode(Text(currencyCode))
    IN  <<getCurrencySymbol(safeCode)>> \o toLocaleString2(normalizedAmount)

\* a buggy variant that keeps the trailing .0
DisplayValue_KeepZero(roundedTenths) ==
    ToDecimal(roundedTenths \div 10) \o <<".", DigitChars[(roundedTenths % 10) + 1]>>

\* displayValue of a rounded value given in tenths: String(roundedValue) for
\* an integer, else roundedValue.toFixed(1).replace(/\.0$/, '')
DisplayValue(roundedTenths) ==
    IF roundedTenths % 10 = 0
    THEN ToDecimal(roundedTenths \div 10)
    ELSE ToDecimal(roundedTenths \div 10) \o <<".", DigitChars[(roundedTenths % 10) + 1]>>

\* formatCompactCurrency; Math.round(x) is floor(x + 1/2), and with a whole
\* divisor the hundredths of the amount never reach the next step
formatCompactCurrency(amount, currencyCode) ==
    LET normalizedAmount == IF isFinite(amount) THEN amount ELSE Money(FALSE, 0, 0)
        absUnits == normalizedAmount.units
    IN  IF absUnits < 1000
        THEN formatMoney(normalizedAmount, currencyCode)
        ELSE LET symbol == getCurrencySymbol(currencyCode)
                 sign == IF normalizedAmount.neg THEN <<"-">> ELSE <<>>
                 divisor == IF absUnits >= 1000000000 THEN 1000000000
                            ELSE IF absUnits >= 1000000 THEN 1000000 ELSE 1000
                 suffix == IF absUnits >= 1000000000 THEN "B"
                           ELSE IF absUnits >= 1000000 THEN "M" ELSE "K"
                 roundedTenths ==
                     IF absUnits \div divisor >= 100
                     THEN 10 * ((absUnits + divisor \div 2) \div divisor)
                     ELSE (absUnits + divisor \div 20) \div (divisor \div 10)
             IN  sign \o <<symbol>> \o DisplayValue(roundedTenths) \o <<suffix>>

\* whole units of the amounts formatted: the steps of the thresholds and of
\* the rounding, up to two billion
UnitInputs ==
    { 0, 5, 999, 1000, 1049, 1050, 1500, 99949, 99950, 100499, 100500, 999499, 999500,
      999999, 1000000, 1500000, 99950000, 999499999, 999500000, 1000000000, 1500000000 }

CentInputs == {0, 50, 99}

AmountsToFormat ==
    {Money(neg, units, cents) : neg \in BOOLEAN, units \in UnitInputs, cents \in CentInputs}
        \cup {NaN, PlusInfinity, MinusInfinity}

\* the budget screen renders an amount
FormatCompactCurrency(amount, currencyCode) ==
    /\ lastCall' = [op |-> "formatCompactCurrency", amount |-> amount,
                    currencyCode |-> currencyCode,
                    result |-> formatCompactCurrency(amount, currencyCode)]
    /\ UNCHANGED <<loadVars, budgetVars, providerVars, screenVars, dbVars, initVars, addVars, recorded,
                   queryVars, dateVars>>

InitCompact ==
    /\ InitDone(FreshDisk)
    /\ EmptyStore /\ IdleScreens /\ NoDates

NextCompact ==
    \E amount \in AmountsToFormat, currencyCode \in SeqToSet(SUPPORTED_CURRENCIES) :
        FormatCompactCurrency(amount, currencyCode)

SpecCompact == InitCompact /\ [][NextCompact]_vars

\* the parts of a compact rendering: optional minus, symbol, number, suffix
CompactParts(text) ==
    LET start == IF text[1] = "-" THEN 2 ELSE 1
    IN  [minus |-> text[1] = "-",
         symbol |-> text[start],
         number |-> SubSeq(text, start + 1, Len(text) - 1),
         suffix |-> text[Len(text)]]

\* digits, or digits, a point and one digit that is not 0
IsCompactNumber(text) ==
    \/ Len(text) >= 1 /\ IsDigits(text, 1, Len(text))
    \/ /\ Len(text) >= 3
       /\ IsDigits(text, 1, Len(text) - 2)
       /\ text[Len(text) - 1] = "."
       /\ IsDigits(text, Len(text), Len(text)) /\ text[Len(text)] # "0"

RECURSIVE WholeValue(_, _)
\* the value of the first n characters of a text of digits
WholeValue(text, n) ==
    IF n = 0 THEN 0 ELSE 10 * WholeValue(text, n - 1) + DigitValue(text[n])

\* the value of such a number, in tenths
TenthsOf(text) ==
    IF Len(text) >= 3 /\ text[Len(text) - 1] = "."
    THEN 10 * WholeValue(text, Len(text) - 2) + DigitValue(text[Len(text)])
    ELSE 10 * WholeValue(text, Len(text))

SymbolOf(code) ==
    IF code = <<"E", "U", "R">> THEN "€" ELSE IF code = <<"U", "S", "D">> THEN "$"
    ELSE IF code = <<"G", "B", "P">> THEN "£" ELSE "₽"

\* symbol, optional minus, whole units, a point and two digits
IsTwoDecimalFormat(text, code, amount) ==
    LET start == IF text[2] = "-" THEN 3 ELSE 2
    IN  /\ text[1] = SymbolOf(code)
        /\ (text[2] = "-") = (amount.neg /\ (amount.units > 0 \/ amount.cents > 0))
        /\ Len(text) >= start + 3
        /\ IsDigits(text, start, Len(text) - 3) /\ text[Len(text) - 2] = "."
        /\ IsDigits(text, Len(text) - 1, Len(text))
        /\ WholeValue(SubSeq(text, start, Len(text) - 3), Len(text) - 2 - start) = amount.units
        /\ WholeValue(SubSeq(text, Len(text) - 1, Len(text)), 2) = amount.cents

\* C23: formatCompactCurrency renders a magnitude below 1000 in the
\* two-decimal format; a magnitude of 1000 or more as sign, currency symbol,
\* scaled value and suffix: K below one million, M below one billion, B from
\* there on; the scaled value is rounded (halves up) to one decimal when
\* below 100 and to a whole number from 100 on, a trailing .0 is dropped, a
\* negative amount keeps its leading minus; 1500 gives 1.5K, 1000000 gives 1M.
C23_CompactFormat ==
    (lastCall.op = "formatCompactCurrency" /\ lastCall.amount.kind = "finite") =>
        LET amount == lastCall.amount
            units == amount.units
            text == lastCall.result
            parts == CompactParts(text)
            step == IF units < 1000000 THEN 1000
                    ELSE IF units < 1000000000 THEN 1000000 ELSE 1000000000
            tenths == TenthsOf(parts.number)
        IN  IF units < 1000
            THEN IsTwoDecimalFormat(text, lastCall.currencyCode, amount)
            ELSE /\ parts.minus = amount.neg
                 /\ parts.symbol = SymbolOf(lastCall.currencyCode)
                 /\ parts.suffix = (IF units < 1000000 THEN "K"
                                    ELSE IF units < 1000000000 THEN "M" ELSE "B")
                 /\ IsCompactNumber(parts.number)
                 /\ IF units \div step < 100
                    THEN /\ tenths * (step \div 10) - step \div 20 <= units
                         /\ units < tenths * (step \div 10) + step \div 20
                    ELSE /\ tenths % 10 = 0
                         /\ (tenths \div 10) * step - step \div 2 <= units
                         /\ units < (tenths \div 10) * step + step \div 2
                 /\ units = 1500 => parts.number = <<"1", ".", "5">> /\ parts.suffix = "K"
                 /\ units = 1000000 => parts.number = <<"1">> /\ parts.suffix = "M"

\* -1500 US dollars were rendered as -$1.5K
C23_Witness ==
    /\ lastCall.op = "formatCompactCurrency"
    /\ lastCall.amount = Money(TRUE, 1500, 0)
    /\ lastCall.result = <<"-", "$", "1", ".", "5", "K">>

\* C30: for every amount of magnitude 1000 or more the number part of the
\* rendering is at least 1 and below 1000.
C30_NumberPartBelowThousand ==
    (/\ lastCall.op = "formatCompactCurrency" /\ lastCall.amount.kind = "finite"
     /\ lastCall.amount.units >= 1000)
        => LET tenths == TenthsOf(CompactParts(lastCall.result).number)
           IN  10 <= tenths /\ tenths < 10000

----------------------------------------------------------------------------
(* Home screen (app/(tabs)/index.tsx)                                      *)

MaxHomeLoads == 3

\* what the table holds while the screen is open: two expenses of 31 March
\* written in the same millisecond, one of 1 April
HomeSample ==
    << InsertedRow([id |-> 1, amount |-> 10, category |-> Cafe,
                    date |-> formatISODate([y |-> 2024, m |-> 2, d |-> 31, h |-> 0])], 1),
       InsertedRow([id |-> 2, amount |-> 20, category |-> Taxi,
                    date |-> formatISODate([y |-> 2024, m |-> 2, d |-> 31, h |-> 0]),
                    note |-> Text(<<"l", "a", "t", "e">>)], 1),
       InsertedRow([id |-> 3, amount |-> 5, category |-> Cafe,
                    date |-> formatISODate([y |-> 2024, m |-> 3, d |-> 1, h |-> 0])], 2) >>

\* selectedDateISO and nextDateISO of a render
selectedDateISO(selectedDate) == toISODateOnly(selectedDate)
nextDateISO(selectedDate) == toISODateOnly(addDays(selectedDate, 1))

\* a sequence without its i-th element
RemoveAt(s, i) == SubSeq(s, 1, i - 1) \o SubSeq(s, i + 1, Len(s))

\* loadHomeData up to its await: setLoadError(''), and the two queries are
\* started with the dates of the render the callback belongs to
StartHomeLoad(state) ==
    /\ home' = [state EXCEPT !.loadError = "", !.started = @ + 1]
    /\ homeLoads' = Append(homeLoads,
                       [selectedDateISO |-> selectedDateISO(state.selectedDate),
                        nextDateISO |-> nextDateISO(state.selectedDate)])

HomeFrame ==
    UNCHANGED <<loadVars, lastCall, budgetVars, providerVars, saveScreen, picker, dbVars,
                initVars, addVars, recorded, queryVars, dateVars>>

\* useFocusEffect: the screen is mounted, or gains focus again, and calls
\* loadHomeData
FocusHome ==
    /\ home.started < MaxHomeLoads
    /\ StartHomeLoad(home)
    /\ HomeFrame

\* changeDateByDays(days): the next render has a new loadHomeData, so the
\* focus effect runs again and calls it
ChangeDateByDays(days) ==
    /\ 0 < home.started /\ home.started < MaxHomeLoads
    /\ StartHomeLoad([home EXCEPT !.selectedDate = addDays(@, days)])
    /\ HomeFrame

\* handleCalendarSelect(dateISO): selecting the date already shown leaves
\* selectedDateISO, and with it loadHomeData, as they were
HandleCalendarSelect(dateISO) ==
    /\ 0 < home.started /\ home.started < MaxHomeLoads
    /\ LET next == [home EXCEPT !.selectedDate = DateOfISO(dateISO)]
       IN  IF dateISO = selectedDateISO(home.selectedDate)
           THEN home' = next /\ UNCHANGED homeLoads
           ELSE StartHomeLoad(next)
    /\ HomeFrame

\* the two queries of a load resolve: its continuation sets the list and the
\* total, whatever date is selected by now
HomeLoadResolves(i) ==
    /\ i \in 1..Len(homeLoads)
    /\ \E transactionsByDate \in getTransactionsByDate(transactions,
                                                      homeLoads[i].selectedDateISO, 10) :
          home' = [home EXCEPT !.todayTransactions = transactionsByDate,
                               !.totalToday = getTotal(transactions,
                                                       homeLoads[i].selectedDateISO,
                                                       homeLoads[i].nextDateISO)]
    /\ homeLoads' = RemoveAt(homeLoads, i)
    /\ HomeFrame

\* a query of a load rejects: catch { setLoadError('Failed to load expenses') }
HomeLoadRejects(i) ==
    /\ i \in 1..Len(homeLoads)
    /\ home' = [home EXCEPT !.loadError = "Failed to load expenses"]
    /\ homeLoads' = RemoveAt(homeLoads, i)
    /\ HomeFrame

CalendarInputs ==
    { formatISODate([y |-> 2024, m |-> 2, d |-> 31, h |-> 0]),
      formatISODate([y |-> 2024, m |-> 3, d |-> 1, h |-> 0]) }

InitHome ==
    /\ InitDone(FreshDisk)
    /\ custom_categories = <<>> /\ settings = <<>>
    /\ transactions = HomeSample
    /\ IdleScreens /\ NoDates

NextHome ==
    \/ FocusHome
    \/ \E days \in {-1, 1} : ChangeDateByDays(days)
    \/ \E dateISO \in CalendarInputs : HandleCalendarSelect(dateISO)
    \/ \E i \in 1..MaxHomeLoads : HomeLoadResolves(i)
    \/ \E i \in 1..MaxHomeLoads : HomeLoadRejects(i)

SpecHome == InitHome /\ [][NextHome]_vars

\* the stored transactions dated as the selected date
StoredOnSelectedDate ==
    {i \in 1..Len(transactions) : transactions[i].date = toISODateOnly(home.selectedDate)}

\* C24: once every load started on the home screen has settled (and none has
\* left an error), the list and the day total shown are those of the selected
\* date, in whatever order the loads completed.
C24_HomeShowsSelectedDate ==
    (homeLoads = <<>> /\ home.loadError = "" /\ home.started > 0) =>
        /\ {home.todayTransactions[i].id : i \in 1..Len(home.todayTransactions)}
              = {transactions[i].id : i \in StoredOnSelectedDate}
        /\ home.totalToday = SumOver(StoredOnSelectedDate)

----------------------------------------------------------------------------
(* The currency selection and the provider's initial load                  *)
(* (src/providers/CurrencyProvider.tsx)                                    *)

\* C25: after setCurrencyCode(c), once the provider's initial load (its
\* read-repair write included) and every write have completed without
\* failure, the in-memory currency and the value stored under the canonical
\* key are both c.
C25_SelectionSurvivesInitialLoad ==
    (/\ lastCall.op = "setCurrencyCode" /\ lastCall.write = "written"
     /\ currencyWrites = <<>>
     /\ provider.mountPc = "done")
        => /\ provider.currencyCode = lastCall.nextCurrency
           /\ getSetting(settings, CURRENCY_SETTING_KEY) = Text(lastCall.nextCurrency)

----------------------------------------------------------------------------
(* Saving an expense (app/add-expense.tsx)                                 *)

MaxSaveAttempts == 3

\* what the form holds when Save is pressed: the inputs of SaveInputs, and
\* one whose amount is not greater than 0
FormInputs ==
    SaveInputs \cup
       {[amount |-> 0, category |-> Cafe,
         date |-> formatISODate([y |-> 2024, m |-> 2, d |-> 1, h |-> 0])]}

SaveFrame ==
    UNCHANGED <<loadVars, lastCall, budgetVars, providerVars, home, homeLoads, picker,
                tables, txColumns, custom_categories, initVars, addVars, recorded,
                queryVars, dateVars>>

\* handleSave up to `await addTransaction(...)`; the Save button is disabled
\* while isSaving
HandleSave(input) ==
    /\ saveScreen.pc \in {"idle", "failed"}
    /\ saveScreen.attempts < MaxSaveAttempts
    /\ IF input.amount <= 0
       THEN saveScreen' = [saveScreen EXCEPT !.amountError = "Amount must be greater than 0",
                                             !.attempts = @ + 1]
       ELSE saveScreen' = [saveScreen EXCEPT !.pc = "addTransaction",
                                             !.pending = input,
                                             !.amountError = "", !.saveError = "",
                                             !.isSaving = TRUE,
                                             !.attempts = @ + 1,
                                             !.rowsAtStart = Len(transactions)]
    /\ UNCHANGED <<transactions, settings>>
    /\ SaveFrame

\* catch { setSaveError('Failed to save expense') } finally { setIsSaving(false) }
SaveFailed ==
    [saveScreen EXCEPT !.pc = "failed", !.saveError = "Failed to save expense",
                       !.isSaving = FALSE]

\* addTransaction settles: the row is inserted with a fresh id, or the call
\* rejects
SaveAddSettles ==
    /\ saveScreen.pc = "addTransaction"
    /\ \E ok \in BOOLEAN, elapsed \in {0, 1} :
          IF ok /\ "transactions" \in tables
          THEN /\ transactions' =
                     Append(transactions,
                            InsertedRow([id |-> Len(transactions) + 1] @@ saveScreen.pending,
                                        ClockOf(transactions) + elapsed))
               /\ saveScreen' = [saveScreen EXCEPT !.pc = "recordRecentCategory"]
          ELSE /\ transactions' = transactions
               /\ saveScreen' = SaveFailed
    /\ UNCHANGED settings
    /\ SaveFrame

\* recordRecentCategory(category) settles: the recent list is written and the
\* screen is left (router.back / router.replace), or the call rejects
SaveRecordSettles ==
    /\ saveScreen.pc = "recordRecentCategory"
    /\ \E ok \in BOOLEAN :
          IF ok /\ "settings" \in tables
          THEN LET normalizedName == normalizeCategoryName(saveScreen.pending.category)
                   currentRecent ==
                       getRecentCategories(getSetting(settings, RECENT_CATEGORIES_SETTING_KEY))
               IN  /\ settings' = setSetting(settings, RECENT_CATEGORIES_SETTING_KEY,
                                     JSONStringify(nextRecent(normalizedName, currentRecent)))
                   /\ saveScreen' = [saveScreen EXCEPT !.pc = "left", !.isSaving = FALSE]
          ELSE /\ settings' = settings
               /\ saveScreen' = SaveFailed
    /\ UNCHANGED transactions
    /\ SaveFrame

InitSave ==
    /\ InitDone(FreshDisk)
    /\ EmptyStore /\ IdleScreens /\ NoDates

NextSave ==
    \/ \E input \in FormInputs : HandleSave(input)
    \/ SaveAddSettles
    \/ SaveRecordSettles

SpecSave == InitSave /\ [][NextSave]_vars

\* C26: whenever a save has ended in the 'Failed to save expense' state, that
\* attempt has inserted no transaction, so the expense of the screen is never
\* stored twice.
C26_FailedSaveInsertsNothing ==
    /\ (saveScreen.pc = "failed" /\ saveScreen.saveError = "Failed to save expense")
          => Len(transactions) = saveScreen.rowsAtStart
    /\ Len(transactions) <= 1

----------------------------------------------------------------------------
(* A failed open or initialization (src/db/db.ts, src/db/schema.ts)        *)

\* C27: once opening the database or the initialization has failed, the
\* rejected promise stays memoized: no later call opens or initializes again
\* (the promises, the tables and the run counts stay as they are), and every
\* caller, whenever it calls, awaits that same promise and fails with it.
C27_FailureStaysMemoized ==
    /\ [](PromiseState(initPromise) = "rejected" =>
             \A c \in Callers :
                 /\ callerPc[c].at # "resumed"
                 /\ callerPc[c].at # "idle" => callerPc[c].awaits = initPromise)
    /\ [][dbPromise = "rejected" => dbPromise' = "rejected"]_vars
    /\ [][PromiseState(initPromise) = "rejected" =>
             /\ initPromise' = initPromise /\ initPc' = initPc
             /\ dbPromise' = dbPromise
             /\ createRuns' = createRuns /\ migrateRuns' = migrateRuns
             /\ tables' = tables /\ txColumns' = txColumns]_vars

\* the open failed, the initialization failed with it, and both callers,
\* one of which called after the failure, have got the rejection
C27_Witness ==
    /\ dbPromise = "rejected"
    /\ PromiseState(initPromise) = "rejected"
    /\ createRuns = 0
    /\ \A c \in Callers : callerPc[c].at = "threw" /\ callerPc[c].awaits = initPromise

----------------------------------------------------------------------------
(* Analytics screen: the loading indicator                                 *)

AllLoadsSettled == \A r \in Loads : loads[r].pc # "awaiting"

\* C28: once every started loadAnalytics request has settled, with success or
\* failure and in whatever order, isLoading is false; while the latest
\* request is in flight isLoading is true, and no step of a superseded
\* request changes it.
C28_LoadingIndicator ==
    /\ [](AllLoadsSettled => ~analytics.isLoading)
    /\ [](requestIdRef > 0 /\ loads[requestIdRef].pc = "awaiting" => analytics.isLoading)
    /\ [][\A r \in Loads :
             (loads'[r] # loads[r] /\ loads'[r].requestId # requestIdRef') =>
                 analytics'.isLoading = analytics.isLoading]_vars

\* three requests were started; the last settled first (it failed), the
\* first two settled afterwards in reverse order, and the indicator is off
C28_Witness ==
    /\ requestIdRef = 3
    /\ AllLoadsSettled
    /\ loads[3].outcome.kind = "failed"
    /\ loads[1].outcome.kind = "loaded" /\ loads[2].outcome.kind = "loaded"
    /\ ~analytics.isLoading
    /\ analytics.error = failedToLoadStats

----------------------------------------------------------------------------
(* Analytics screen: the period and the range picker                       *)

NoDate == [kind |-> "none"]

\* the days that can be pressed in the calendar, as parseISODate returns them
\* (local midnight of the day)
PressDays ==
    { NewDate(2024, 2, 1), NewDate(2024, 2, 31) }

\* the periods chosen in the period menu (of PERIOD_OPTIONS)
PeriodInputs == {"month", "range"}

\* the month cells that can be pressed in the month grid
MonthIndexes == {1}

HasBothEnds(p) == p.rangeStart # NoDate /\ p.rangeEnd # NoDate

activeRange(p) ==
    IF p.periodType = "day" THEN getDayRange(p.selectedDate)
    ELSE IF p.periodType = "week" THEN getWeekRange(p.selectedWeekStart)
    ELSE IF p.periodType = "month" THEN getMonthRange(p.selectedMonth)
    ELSE IF HasBothEnds(p) THEN getRangeRange(p.rangeStart, p.rangeEnd)
    ELSE NoDate

hasCompleteRange(p) == p.periodType # "range" \/ HasBothEnds(p)

\* what the focus effect passes to loadAnalytics: fromISO, toISO
\* (activeRange?.fromISO ?? '') and hasCompleteRange
FocusArgs(p) ==
    [fromISO |-> IF activeRange(p) = NoDate THEN <<>> ELSE activeRange(p).fromISO,
     toISO |-> IF activeRange(p) = NoDate THEN <<>> ELSE activeRange(p).toISO,
     shouldLoad |-> hasCompleteRange(p)]

\* a buggy variant that takes the second press as the end of the range
\* whichever side of the start it is on
handleCalendarDayPress_NoSwap(p, picked) ==
    IF p.periodType = "day"
    THEN [p EXCEPT !.selectedDate = picked, !.isPickerVisible = FALSE]
    ELSE IF p.periodType = "week"
    THEN [p EXCEPT !.selectedWeekStart = getStartOfWeekMonday(picked),
                   !.isPickerVisible = FALSE]
    ELSE IF p.rangeStart = NoDate \/ HasBothEnds(p)
    THEN [p EXCEPT !.rangeStart = picked, !.rangeEnd = NoDate]
    ELSE [p EXCEPT !.rangeEnd = picked, !.isPickerVisible = FALSE]

handleCalendarDayPress(p, picked) ==
    IF p.periodType = "day"
    THEN [p EXCEPT !.selectedDate = picked, !.isPickerVisible = FALSE]
    ELSE IF p.periodType = "week"
    THEN [p EXCEPT !.selectedWeekStart = getStartOfWeekMonday(picked),
                   !.isPickerVisible = FALSE]
    ELSE IF p.rangeStart = NoDate \/ HasBothEnds(p)
    THEN [p EXCEPT !.rangeStart = picked, !.rangeEnd = NoDate]
    ELSE IF TimeValue(picked) < TimeValue(p.rangeStart)
    THEN [p EXCEPT !.rangeStart = picked, !.rangeEnd = p.rangeStart,
                   !.isPickerVisible = FALSE]
    ELSE [p EXCEPT !.rangeEnd = picked, !.isPickerVisible = FALSE]

\* the screen renders with the new state; the focus effect runs again when
\* fromISO, toISO or hasCompleteRange has changed
Rerender(next) ==
    /\ picker' = next
    /\ IF FocusArgs(next) # FocusArgs(picker)
       THEN loadAnalytics(FocusArgs(next))
       ELSE UNCHANGED loadVars
    /\ UNCHANGED <<dbVars, initVars, addVars, recorded, queryVars, dateVars, lastCall,
                   budgetVars, providerVars, home, homeLoads, saveScreen>>

\* the screen is mounted, or gains focus again: the focus effect runs
FocusAnalytics ==
    /\ loadAnalytics(FocusArgs(picker))
    /\ UNCHANGED <<dbVars, initVars, addVars, recorded, queryVars, dateVars, lastCall,
                   budgetVars, providerVars, screenVars>>

Mounted == requestIdRef > 0

HandleChangePeriodType(nextPeriod) ==
    /\ Mounted /\ ~picker.isPickerVisible
    /\ Rerender([picker EXCEPT !.periodType = nextPeriod])

HandleOpenPicker ==
    /\ Mounted /\ ~picker.isPickerVisible
    /\ Rerender([picker EXCEPT !.isPickerVisible = TRUE])

\* Cancel, the backdrop or the back button
ClosePicker ==
    /\ picker.isPickerVisible
    /\ Rerender([picker EXCEPT !.isPickerVisible = FALSE])

HandleCalendarDayPress(picked) ==
    /\ picker.isPickerVisible /\ picker.periodType # "month"
    /\ Rerender(handleCalendarDayPress(picker, picked))

HandleSelectMonth(monthIndex) ==
    /\ picker.isPickerVisible /\ picker.periodType = "month"
    /\ Rerender([picker EXCEPT !.selectedMonth = NewDate(2024, monthIndex, 1),
                               !.isPickerVisible = FALSE])

InitRange == InitLoads

NextRange ==
    \/ FocusAnalytics
    \/ \E nextPeriod \in PeriodInputs : HandleChangePeriodType(nextPeriod)
    \/ HandleOpenPicker
    \/ ClosePicker
    \/ \E picked \in PressDays : HandleCalendarDayPress(picked)
    \/ \E monthIndex \in MonthIndexes : HandleSelectMonth(monthIndex)
    \/ \E r \in Loads : LoadResolves(r)
    \/ \E r \in Loads : LoadRejects(r)

SpecRange == InitRange /\ [][NextRange]_vars

RangeIncomplete == picker.periodType = "range" /\ ~HasBothEnds(picker)

\* a calendar day press in range mode
RangePress ==
    /\ picker.periodType = "range"
    /\ picker.isPickerVisible
    /\ <<picker.rangeStart, picker.rangeEnd>>' # <<picker.rangeStart, picker.rangeEnd>>

\* C29: in range mode, whenever both ends are set rangeStart is not later than
\* rangeEnd; a press with no start or with a complete range makes the
\* pressed day the start and clears the end; and while the range is
\* incomplete no query is started and the screen shows total 0 with no
\* category totals.
C29_RangePicker ==
    /\ [](HasBothEnds(picker) =>
             TimeValue(picker.rangeStart) <= TimeValue(picker.rangeEnd))
    /\ [][(RangePress /\ (picker.rangeStart = NoDate \/ HasBothEnds(picker))) =>
             /\ picker'.rangeStart \in PressDays
             /\ picker'.rangeEnd = NoDate]_vars
    /\ []((Mounted /\ RangeIncomplete) =>
             /\ analytics.total = 0 /\ analytics.categoryTotals = <<>>
             /\ loads[requestIdRef].pc = "done"
             /\ loads[requestIdRef].outcome.kind = "skipped")
    /\ [][RangeIncomplete' =>
             \A r \in Loads : loads'[r].pc = "awaiting" => loads[r].pc = "awaiting"]_vars

\* a range was completed by pressing the earlier day second, its totals were
\* shown, and a further press has started a new range: the end is cleared
\* and the screen shows nothing
C29_Witness ==
    /\ picker.periodType = "range"
    /\ picker.rangeStart = NewDate(2024, 2, 31) /\ picker.rangeEnd = NoDate
    /\ \E r \in Loads :
          /\ loads[r].pc = "done" /\ loads[r].outcome.kind = "loaded"
          /\ loads[r].input.fromISO = formatISODate(NewDate(2024, 2, 1))
          /\ loads[r].input.toISO = formatISODate(NewDate(2024, 3, 1))
          /\ loads[r].outcome.overall = 30
    /\ analytics.total = 0 /\ analytics.categoryTotals = <<>>

====
